---- MODULE Spec2Model ----
(***************************************************************************)
(* Model of the snapshot/transition core of op-patchstudio:                *)
(*   ClockEngine      (src/unnamed/part_003)                               *)
(*   SnapshotEngine   (src/src/features/snapshots/SnapshotEngine.ts)       *)
(*   TransitionEngine (src/src/features/snapshots/TransitionEngine.ts)     *)
(* Each object is a record variable holding its fields; the timers an      *)
(* object has armed in the JavaScript runtime are kept with it.  Methods   *)
(* are operators from a record to the record after the call, so that a     *)
(* method calling another method (or a callback calling back into the      *)
(* engine) is operator application.                                        *)
(*                                                                         *)
(* Time is kept relative: every armed timer has `wait`, the milliseconds   *)
(* until it is due, and a running interpolation has `elapsed`, which is    *)
(* Date.now() - startTime.  AdvanceTime moves time to the next due timer.  *)
(***************************************************************************)
EXTENDS Integers, Sequences, FiniteSets, TLC

VARIABLES
  clock,    \* the ClockEngine object
  store,    \* the SnapshotEngine object
  engine,   \* the TransitionEngine object, with the timers it has armed
  out,      \* what the engine's callbacks observed during the last step
  nTicks,   \* history: ticks processed since the last reset()
  answer,   \* the value returned by the last call, when it was a query
  last      \* history: name of the last operation or handler that ran

vars == <<clock, store, engine, out, nTicks, answer, last>>

NULL == "null"
NoAnswer == [arg |-> NULL, result |-> NULL]

(***************************************************************************)
(* Bounds of the model.                                                    *)
(***************************************************************************)
MaxBar == 2          \* ticks are ingested while currentBar < MaxBar
MaxCycle == 4        \* cycle lengths 1..MaxCycle are tried for getNextCycleBar
MaxSnapshots == 2    \* snapshots the client of the store creates, captures or copies
MaxArrays == 1       \* parameter lists the client of the store passes in
MaxNow == 1          \* Date.now() takes the values 0..MaxNow

(***************************************************************************)
(* Program constants.                                                      *)
(***************************************************************************)
PPQN == 24
DefaultBeatsPerBar == 4
DefaultBpm == 120
MinBpm == 20
MaxBpm == 300
MsPerMinute == 60000
MinValue == 0
MaxValue == 127
TempoCC == 80
TempoDefault == 64
GrooveCC == 81
GrooveDefault == 64
FRAME_RATE == 60
TempId == 0          \* stands for the uuid of sendParameterValue's 'temp' snapshot

\* beatsPerBar is a constructor argument (initialState); 4 is the default.
BeatsPerBarChoices == {1, 3, DefaultBeatsPerBar}
\* arguments tried for setBpm: below, inside and above the clamp range
BpmInputs == {10, DefaultBpm, 400}
ClockSources == {"internal", "midi"}
Quantizations == {"beat", "bar", "2bar", "4bar"}

\* inputs of the store and the engine
SnapshotValue == 70
FadeInputs == {0, 40}
CallbackFade == 40
JumpQuantizations == {"none", "beat"}
CycleInputs == {1}
ClockPositions == {<<0, 0>>, <<1, 1>>}

\* 1000 / FRAME_RATE, in whole milliseconds
FRAME_INTERVAL == 1000 \div FRAME_RATE

Min(a, b) == IF a < b THEN a ELSE b
Max(a, b) == IF a > b THEN a ELSE b

\* Math.ceil(a / b) for a >= 0, b > 0
CeilDiv(a, b) == (a + b - 1) \div b

(***************************************************************************)
(* ClockEngine                                                             *)
(***************************************************************************)

\* constructor(initialState): the defaults, with beatsPerBar overridden
NewClock(bpb) ==
  [ isRunning   |-> FALSE,
    source      |-> "internal",
    bpm         |-> DefaultBpm,
    currentBeat |-> 0,
    currentBar  |-> 0,
    beatsPerBar |-> bpb,
    ppqn        |-> PPQN,
    tickCount   |-> 0,
    lastBeat    |-> -1,
    lastBar     |-> -1,
    intervalId  |-> FALSE,      \* TRUE: intervalId !== null
    intervals   |-> {},         \* setInterval timers of this object that are armed
    emitted     |-> << >> ]     \* events emitted by the running call, in order

\* (60 / bpm) * 1000
MsPerBeat(c) == MsPerMinute \div c.bpm

\* emit(event): listeners observe the event
Emit(c, type) ==
  [c EXCEPT !.emitted = Append(@, [type |-> type, bar |-> c.currentBar,
                                   beat |-> c.currentBeat])]

\* startInternalClock(): setInterval(processMidiClockTick, msPerBeat / ppqn);
\* the handle is stored over whatever intervalId held.
StartInternalClock(c) ==
  LET msPerTick == MsPerBeat(c) \div c.ppqn
  IN [c EXCEPT !.intervalId = TRUE,
               !.intervals = {[t EXCEPT !.current = FALSE] : t \in @}
                             \cup {[wait |-> msPerTick, period |-> msPerTick,
                                    current |-> TRUE]}]

\* stopInternalClock()
StopInternalClock_KeepsInterval(c) == [c EXCEPT !.intervalId = FALSE]
StopInternalClock(c) ==
  IF c.intervalId
    THEN [c EXCEPT !.intervalId = FALSE,
                   !.intervals = {t \in @ : ~t.current}]
    ELSE c

\* start()
ClockStart_NoGuard(c) ==
  LET c1 == [c EXCEPT !.isRunning = TRUE]
  IN IF c1.source = "internal" THEN StartInternalClock(c1) ELSE c1
ClockStart(c) ==
  IF c.isRunning THEN c
  ELSE LET c1 == [c EXCEPT !.isRunning = TRUE]
       IN IF c1.source = "internal" THEN StartInternalClock(c1) ELSE c1

\* stop()
ClockStop(c) ==
  IF ~c.isRunning THEN c
  ELSE StopInternalClock([c EXCEPT !.isRunning = FALSE])

\* reset()
ClockReset(c) ==
  [c EXCEPT !.currentBeat = 0, !.currentBar = 0, !.tickCount = 0,
            !.lastBeat = -1, !.lastBar = -1]

\* advanceBeat()
AdvanceBeat(c) ==
  LET c1 == [c EXCEPT !.currentBeat = @ + 1]
      c2 == IF c1.currentBeat >= c1.beatsPerBar
              THEN LET b == [c1 EXCEPT !.currentBeat = 0, !.currentBar = @ + 1]
                       e == Emit(b, "bar")
                   IN [e EXCEPT !.lastBar = e.currentBar]
              ELSE c1
  IN IF c2.lastBeat # c2.currentBeat
       THEN LET e == Emit(c2, "beat") IN [e EXCEPT !.lastBeat = e.currentBeat]
       ELSE c2

\* the guard of processMidiClockTick(): ticks are processed for source 'midi'
TickIsProcessed_Always(c) == TRUE
TickIsProcessed(c) == c.source = "midi"

\* the test that ends a beat in processMidiClockTick()
BeatIsFull_OffByOne(c) == c.tickCount > c.ppqn
BeatIsFull(c) == c.tickCount >= c.ppqn

\* processMidiClockTick()
ProcessMidiClockTick(c) ==
  IF ~TickIsProcessed(c) THEN c
  ELSE LET c1 == [c EXCEPT !.tickCount = @ + 1]
           c2 == IF BeatIsFull(c1)
                   THEN AdvanceBeat([c1 EXCEPT !.tickCount = 0])
                   ELSE c1
       IN Emit(c2, "tick")

\* processMidiStart()
ProcessMidiStart(c) == ClockStart(ClockReset(c))

\* processMidiStop()
ProcessMidiStop(c) == ClockStop(c)

\* processMidiContinue()
ProcessMidiContinue(c) == ClockStart(c)

\* setClockSource(source)
SetClockSource_StaysStopped(c, s) == [ClockStop(c) EXCEPT !.source = s]
SetClockSource(c, s) ==
  LET wasRunning == c.isRunning
      c1 == IF wasRunning THEN ClockStop(c) ELSE c
      c2 == [c1 EXCEPT !.source = s]
  IN IF wasRunning THEN ClockStart(c2) ELSE c2

\* setBpm(bpm)
SetBpm_KeepsTimer(c, b) == [c EXCEPT !.bpm = Max(MinBpm, Min(MaxBpm, b))]
SetBpm(c, b) ==
  LET c1 == [c EXCEPT !.bpm = Max(MinBpm, Min(MaxBpm, b))]
  IN IF c1.isRunning /\ c1.source = "internal"
       THEN StartInternalClock(StopInternalClock(c1))
       ELSE c1

\* the beats getTimeUntilNextQuantization(q) waits for
BeatsToWait_WholeBar(c, q) ==
  CASE q = "beat" -> 1
    [] q = "bar"  -> c.beatsPerBar
    [] q = "2bar" -> c.beatsPerBar * 2
                     - ((c.currentBar % 2) * c.beatsPerBar + c.currentBeat)
    [] q = "4bar" -> c.beatsPerBar * 4
                     - ((c.currentBar % 4) * c.beatsPerBar + c.currentBeat)
BeatsToWait(c, q) ==
  CASE q = "beat" -> 1
    [] q = "bar"  -> c.beatsPerBar - c.currentBeat
    [] q = "2bar" -> c.beatsPerBar * 2
                     - ((c.currentBar % 2) * c.beatsPerBar + c.currentBeat)
    [] q = "4bar" -> c.beatsPerBar * 4
                     - ((c.currentBar % 4) * c.beatsPerBar + c.currentBeat)

\* getTimeUntilNextQuantization(q)
GetTimeUntilNextQuantization(c, q) == BeatsToWait(c, q) * MsPerBeat(c)

\* getTimeUntilBar(targetBar)
GetTimeUntilBar_WholeBars(c, targetBar) ==
  IF targetBar <= c.currentBar THEN 0
  ELSE (targetBar - c.currentBar) * c.beatsPerBar * MsPerBeat(c)
GetTimeUntilBar(c, targetBar) ==
  IF targetBar <= c.currentBar THEN 0
  ELSE ((targetBar - c.currentBar) * c.beatsPerBar - c.currentBeat) * MsPerBeat(c)

\* getNextCycleBar(cycleLengthBars)
GetNextCycleBar_NoPlusOne(c, k) == CeilDiv(c.currentBar, k) * k
GetNextCycleBar(c, k) == CeilDiv(c.currentBar + 1, k) * k


(***************************************************************************)
(* SnapshotEngine                                                          *)
(***************************************************************************)

\* Parameter ids used by the model: two entries of the registry and one id
\* the registry does not know.
ParamIds == {"tempo", "groove", "custom"}

\* String.prototype.toUpperCase on the ids above
ToUpperCase(id) ==
  CASE id = "tempo"  -> "TEMPO"
    [] id = "groove" -> "GROOVE"
    [] id = "custom" -> "CUSTOM"

\* OPXY_PARAMETERS, keyed as in the source: the TEMPO and GROOVE entries
OPXY_PARAMETERS ==
  [ TEMPO  |-> [id |-> "tempo",  type |-> "cc", channel |-> 1, cc |-> TempoCC,
                defaultValue |-> TempoDefault],
    GROOVE |-> [id |-> "groove", type |-> "cc", channel |-> 1, cc |-> GrooveCC,
                defaultValue |-> GrooveDefault] ]

\* initializeDefaultValues(): the shadow holds the default of every entry
DefaultValues ==
  [id \in {OPXY_PARAMETERS[k].id : k \in DOMAIN OPXY_PARAMETERS} |->
     LET k == CHOOSE k \in DOMAIN OPXY_PARAMETERS : OPXY_PARAMETERS[k].id = id
     IN OPXY_PARAMETERS[k].defaultValue]

\* initializeDefaultValues(): the order in which the entries are set, which
\* is the iteration order of the shadow
DefaultOrder == << OPXY_PARAMETERS.TEMPO.id, OPXY_PARAMETERS.GROOVE.id >>

\* constructor()
NewStore ==
  [ snapshots     |-> << >>,         \* Map id -> Snapshot: a function on the stored ids
    order         |-> << >>,         \* the Map's iteration (insertion) order
    nextId        |-> 1,             \* stands for uuidv4(): ids are never reused
    nextArray     |-> 1,             \* names the next array a caller passes in
    now           |-> 0,             \* what Date.now() returns
    currentValues |-> DefaultValues,
    currentOrder  |-> DefaultOrder ] \* the shadow's iteration (insertion) order

\* Math.max(0, Math.min(127, value))
Clamp(v) == Max(MinValue, Min(MaxValue, v))

Has(s, id) == id \in DOMAIN s.snapshots

\* this.snapshots.set(id, snapshot)
MapSet(s, id, snap) ==
  [s EXCEPT !.snapshots = [i \in (DOMAIN @) \cup {id} |->
                              IF i = id THEN snap ELSE @[i]],
            !.order = IF id \in DOMAIN s.snapshots THEN @ ELSE Append(@, id)]

\* createSnapshot(bank, slot, name) with the id uuidv4() returned.  The field
\* `array` names the array object `parameters` refers to: snapshots with the
\* same `array` share one list.  The array made here is named by the id.
\* (name and color, plain data no operation reads, are left out.)
CreateSnapshotAt(s, id, bank, slot) ==
  MapSet(s, id, [id |-> id, bank |-> bank, slot |-> slot,
                 parameters |-> << >>, oneShotMessages |-> << >>, array |-> id,
                 createdAt |-> s.now, modifiedAt |-> s.now])

\* createSnapshot(0, 0, name) with the id uuidv4() returned
CreateSnapshotWithId(s, id) == CreateSnapshotAt(s, id, 0, 0)

\* createSnapshot(bank, slot, name)
CreateSnapshotIn(s, bank, slot) ==
  [CreateSnapshotAt(s, s.nextId, bank, slot) EXCEPT !.nextId = @ + 1]

\* createSnapshot(0, 0, name)
CreateSnapshot(s) == CreateSnapshotIn(s, 0, 0)

\* getAllSnapshots(): Array.from(this.snapshots.values())
GetAllSnapshots(s) == [i \in 1..Len(s.order) |-> s.snapshots[s.order[i]]]

\* getSnapshotByPosition(bank, slot): the first snapshot in the Map's
\* iteration order that has the address, or undefined (<< >>)
GetSnapshotByPosition(s, bank, slot) ==
  LET at == {i \in 1..Len(s.order) : /\ s.snapshots[s.order[i]].bank = bank
                                     /\ s.snapshots[s.order[i]].slot = slot}
  IN IF at = {} THEN << >>
     ELSE << s.snapshots[s.order[CHOOSE i \in at : \A j \in at : i <= j]] >>

\* deleteSnapshot(id)
DeleteSnapshot(s, id) ==
  [s EXCEPT !.snapshots = [i \in (DOMAIN @) \ {id} |-> @[i]],
            !.order = SelectSeq(@, LAMBDA i : i # id)]

\* {...snapshot, ...updates, modifiedAt: Date.now()}: the fields of updates
\* replace the snapshot's; a parameters list in updates is an array of the
\* caller
Spread(s, snap, updates) ==
  [f \in DOMAIN snap |->
     IF f = "modifiedAt" THEN s.now
     ELSE IF f = "array"
       THEN IF "parameters" \in DOMAIN updates THEN -s.nextArray ELSE snap.array
       ELSE IF f \in DOMAIN updates THEN updates[f] ELSE snap[f]]

\* updateSnapshot(id, updates), updates holding any of the fields parameters
\* and oneShotMessages
UpdateSnapshot(s, id, updates) ==
  IF ~Has(s, id) THEN s
  ELSE [MapSet(s, id, Spread(s, s.snapshots[id], updates)) EXCEPT
          !.nextArray = IF "parameters" \in DOMAIN updates THEN @ + 1 ELSE @]

\* an assignment into, or a splice of, the array snapshot id's parameters
\* refers to: every snapshot that refers to the same array shows it
SetParameters(s, id, params) ==
  [s EXCEPT !.snapshots =
     [i \in DOMAIN @ |-> IF @[i].array = @[id].array
                           THEN [@[i] EXCEPT !.parameters = params]
                           ELSE @[i]]]

\* snapshot.modifiedAt = Date.now()
Touch(s, id) == [s EXCEPT !.snapshots[id].modifiedAt = s.now]

\* parameters.findIndex(p => p.parameterId === parameterId); 0 stands for -1
FindIndex(params, pid) ==
  IF \E i \in 1..Len(params) : params[i].parameterId = pid
    THEN CHOOSE i \in 1..Len(params) :
           /\ params[i].parameterId = pid
           /\ \A j \in 1..(i - 1) : params[j].parameterId # pid
    ELSE 0

\* updateSnapshotParameter(snapshotId, parameterId, value, isEnabled)
UpdateSnapshotParameter(s, id, pid, v, en) ==
  IF ~Has(s, id) THEN s
  ELSE LET params == s.snapshots[id].parameters
           i == FindIndex(params, pid)
           entry == [parameterId |-> pid, value |-> Clamp(v), isEnabled |-> en]
       IN Touch(SetParameters(s, id, IF i > 0 THEN [params EXCEPT ![i] = entry]
                                              ELSE Append(params, entry)),
                id)

\* removeSnapshotParameter(snapshotId, parameterId)
RemoveSnapshotParameter(s, id, pid) ==
  IF ~Has(s, id) THEN s
  ELSE LET params == s.snapshots[id].parameters
           i == FindIndex(params, pid)
       IN IF i > 0
            THEN Touch(SetParameters(s, id, SubSeq(params, 1, i - 1)
                                            \o SubSeq(params, i + 1, Len(params))),
                       id)
            ELSE s

\* toggleParameterEnabled(snapshotId, parameterId)
ToggleParameterEnabled_AlwaysTouches(s, id, pid) ==
  IF ~Has(s, id) THEN s
  ELSE LET params == s.snapshots[id].parameters
           i == FindIndex(params, pid)
       IN IF i > 0
            THEN Touch(SetParameters(s, id, [params EXCEPT ![i].isEnabled = ~@]), id)
            ELSE Touch(s, id)
ToggleParameterEnabled(s, id, pid) ==
  IF ~Has(s, id) THEN s
  ELSE LET params == s.snapshots[id].parameters
           i == FindIndex(params, pid)
       IN IF i > 0
            THEN Touch(SetParameters(s, id, [params EXCEPT ![i].isEnabled = ~@]), id)
            ELSE s

\* what the mutations return: updateSnapshot the snapshot it stored or
\* undefined (<< >>), the others a boolean
UpdateSnapshotResult(s, id, updates) ==
  IF ~Has(s, id) THEN << >> ELSE << Spread(s, s.snapshots[id], updates) >>
DeleteSnapshotResult(s, id) == Has(s, id)
UpdateSnapshotParameterResult(s, id) == Has(s, id)
RemoveSnapshotParameterResult(s, id, pid) ==
  Has(s, id) /\ FindIndex(s.snapshots[id].parameters, pid) > 0
ToggleParameterEnabledResult(s, id, pid) ==
  Has(s, id) /\ FindIndex(s.snapshots[id].parameters, pid) > 0

\* updateCurrentValue(parameterId, value)
UpdateCurrentValue(s, pid, v) ==
  [s EXCEPT !.currentValues = [q \in (DOMAIN @) \cup {pid} |->
                                 IF q = pid THEN Clamp(v) ELSE @[q]],
            !.currentOrder = IF pid \in DOMAIN s.currentValues THEN @
                             ELSE Append(@, pid)]

\* captureSnapshot: one entry per entry of the shadow, in its iteration order
CapturedParameters_Defaults(s) ==
  [i \in 1..Len(s.currentOrder) |->
     [parameterId |-> s.currentOrder[i],
      value |-> IF s.currentOrder[i] \in DOMAIN DefaultValues
                  THEN DefaultValues[s.currentOrder[i]] ELSE MinValue,
      isEnabled |-> TRUE]]
CapturedParameters(s) ==
  [i \in 1..Len(s.currentOrder) |->
     [parameterId |-> s.currentOrder[i],
      value |-> s.currentValues[s.currentOrder[i]],
      isEnabled |-> TRUE]]

\* captureSnapshot(bank, slot, name): createSnapshot, then the parameters are
\* a new array holding the shadow
CaptureSnapshot(s) ==
  [CreateSnapshot(s) EXCEPT !.snapshots[s.nextId].parameters = CapturedParameters(s)]

\* copySnapshot(sourceId, targetBank, targetSlot): {...source, id: uuidv4(),
\* bank, slot, createdAt, modifiedAt}; the copy refers to the source's
\* parameters array
CopySnapshot(s, sourceId, targetBank, targetSlot) ==
  IF ~Has(s, sourceId) THEN s
  ELSE [MapSet(s, s.nextId,
               [s.snapshots[sourceId] EXCEPT
                  !.id = s.nextId, !.bank = targetBank, !.slot = targetSlot,
                  !.createdAt = s.now, !.modifiedAt = s.now])
          EXCEPT !.nextId = @ + 1]

\* what copySnapshot returns: the copy, or undefined (<< >>)
CopySnapshotResult(s, sourceId, targetBank, targetSlot) ==
  IF ~Has(s, sourceId) THEN << >>
  ELSE << CopySnapshot(s, sourceId, targetBank, targetSlot).snapshots[s.nextId] >>

\* loadSnapshots(snapshots): the Map is cleared and holds each snapshot of
\* the list under its id; each brings its own parameters array
RECURSIVE LoadFrom(_, _)
LoadFrom(s, list) ==
  IF list = << >> THEN s
  ELSE LoadFrom([MapSet(s, Head(list).id,
                        [id |-> Head(list).id, bank |-> Head(list).bank,
                         slot |-> Head(list).slot,
                         parameters |-> Head(list).parameters,
                         oneShotMessages |-> Head(list).oneShotMessages,
                         array |-> -s.nextArray,
                         createdAt |-> Head(list).createdAt,
                         modifiedAt |-> Head(list).modifiedAt])
                   EXCEPT !.nextArray = @ + 1],
                Tail(list))
LoadSnapshots(s, list) ==
  LoadFrom([s EXCEPT !.snapshots = << >>, !.order = << >>], list)

\* getCurrentValue(parameterId) ?? dflt
GetCurrentValueOr(s, pid, dflt) ==
  IF pid \in DOMAIN s.currentValues THEN s.currentValues[pid] ELSE dflt

\* parameterToMidiMessage(parameterId, value): << >> stands for null, which
\* is returned when the registry has no entry under parameterId.toUpperCase()
ParameterToMidiMessage(pid, v) ==
  LET key == ToUpperCase(pid)
  IN IF key \in DOMAIN OPXY_PARAMETERS
       THEN << [type |-> OPXY_PARAMETERS[key].type,
                channel |-> OPXY_PARAMETERS[key].channel,
                value |-> v,
                cc |-> OPXY_PARAMETERS[key].cc] >>
       ELSE << >>

\* one step of the first loop of getSnapshotMidiMessages: the message pushed
\* for one parameter of the list
MessagesOfParameter_IgnoreEnabled(p) == ParameterToMidiMessage(p.parameterId, p.value)
MessagesOfParameter(p) ==
  IF ~p.isEnabled THEN << >> ELSE ParameterToMidiMessage(p.parameterId, p.value)

\* the first loop of getSnapshotMidiMessages: the messages of the enabled
\* parameters the registry knows, in list order
RECURSIVE ParameterMessages(_)
ParameterMessages(params) ==
  IF params = << >> THEN << >>
  ELSE MessagesOfParameter(Head(params)) \o ParameterMessages(Tail(params))

\* getSnapshotMidiMessages(snapshotId)
GetSnapshotMidiMessages(s, id) ==
  IF ~Has(s, id) THEN << >>
  ELSE ParameterMessages(s.snapshots[id].parameters)
       \o s.snapshots[id].oneShotMessages

\* the one-shot messages a caller stores: a program change, and a control
\* change that is also the encoding of (tempo, SnapshotValue)
OneShotInput ==
  << [type |-> "pc", channel |-> 1, value |-> 5, cc |-> -1],
     [type |-> "cc", channel |-> 1, value |-> SnapshotValue, cc |-> TempoCC] >>

\* getInterpolationTargets(snapshotId): a Map parameterId -> value.  `keys`
\* is its iteration order (first insertion of each key), `val` its content
\* (the last value set for each key).
GetInterpolationTargets(s, id) ==
  LET params == IF Has(s, id) THEN s.snapshots[id].parameters ELSE << >>
      en == SelectSeq(params, LAMBDA p : p.isEnabled)
      idx == {i \in 1..Len(en) : \A j \in 1..(i - 1) :
                                   en[j].parameterId # en[i].parameterId}
      firsts == SelectSeq([i \in 1..Len(en) |-> IF i \in idx THEN en[i].parameterId
                                                           ELSE NULL],
                          LAMBDA x : x # NULL)
  IN [ keys |-> firsts,
       val  |-> [pid \in {en[i].parameterId : i \in 1..Len(en)} |->
                   LET l == CHOOSE i \in 1..Len(en) :
                              /\ en[i].parameterId = pid
                              /\ \A j \in (i + 1)..Len(en) : en[j].parameterId # pid
                   IN en[l].value] ]

(***************************************************************************)
(* TransitionEngine                                                        *)
(*                                                                         *)
(* The engine's methods read the clock, read and write the store and call  *)
(* the three registered callbacks, so they are operators on a "world"      *)
(* record w with fields                                                    *)
(*   clock, store, engine : the three objects                              *)
(*   events : the callback invocations of the running step, in order       *)
(*   h      : history: "no", or how the transition the running handler     *)
(*            works for was ended during this handler (by a callback       *)
(*            calling cancel() or triggering another transition)           *)
(*   live   : history: the transition the engine has accepted and that     *)
(*            has neither completed nor been cancelled or overridden       *)
(* An optional value (T | null) is a sequence: << >> is null, <<x>> is x.  *)
(***************************************************************************)

\* constructor(clockEngine, snapshotEngine)
NewEngine ==
  [ scheduledTransition  |-> << >>,
    interpolationState   |-> << >>,
    interpolationTimerId |-> FALSE,   \* TRUE: interpolationTimerId !== null
    transitionTimerId    |-> FALSE,   \* TRUE: transitionTimerId !== null
    timeouts             |-> {},      \* setTimeout timers that are pending
    frames               |-> {} ]     \* setInterval timers that are armed

\* what a callback does when it is invoked: nothing, or one call back into
\* the engine
NoCall == [op |-> "none", snapshot |-> 0, quantization |-> "none",
           fadeTimeMs |-> 0, cycleLengthBars |-> 1, repeatMode |-> FALSE]

\* what is known of the step just taken: the operation or handler that ran,
\* its arguments, what the callbacks did in it, and the transition that was
\* live before it
NoRan == [op |-> "none", snapshot |-> 0, repeatMode |-> FALSE, stale |-> "no",
          at |-> 0, onMessage |-> NoCall, onComplete |-> NoCall,
          was |-> << >>, wasElapsed |-> -1, armedRunning |-> FALSE]

NoOut == [events |-> << >>, live |-> << >>, ran |-> NoRan]

\* how the transition the running handler works for was ended, if it was
Stale(w) == w.h

\* the ids of a list of snapshots
IdsOf(list) == [i \in 1..Len(list) |-> list[i].id]

\* a callback is invoked: it is recorded with what it is passed and with
\* what the store shows a caller at that instant (the ids getAllSnapshots()
\* and getSnapshotByPosition(0, 0) return)
Observe(w, cb, snap, msg, fade) ==
  [w EXCEPT !.events = Append(@, [cb |-> cb, snapshot |-> snap, message |-> msg,
                                  fade |-> fade, stale |-> Stale(w),
                                  listAll |-> IdsOf(GetAllSnapshots(w.store)),
                                  atZero |-> IdsOf(GetSnapshotByPosition(
                                                     w.store, 0, 0))])]

\* isTransitionActive()
IsTransitionActive(e) ==
  \/ e.scheduledTransition # << >>
  \/ (e.interpolationState # << >> /\ e.interpolationState[1].active)

\* stopInterpolationLoop()
StopInterpolationLoop(w) ==
  IF w.engine.interpolationTimerId
    THEN [w EXCEPT !.engine.interpolationTimerId = FALSE,
                   !.engine.frames = {t \in @ : ~t.current}]
    ELSE w

\* clearTimeout(this.transitionTimerId)
ClearTransitionTimer_Forgotten(e) == e
ClearTransitionTimer(e) == [e EXCEPT !.timeouts = {t \in @ : ~t.current}]

\* cancelActiveTransition(): "Cancel scheduled transition"
CancelScheduled(w) ==
  [w EXCEPT !.engine =
     IF @.transitionTimerId
       THEN [ClearTransitionTimer(@) EXCEPT !.transitionTimerId = FALSE,
                                            !.scheduledTransition = << >>]
       ELSE [@ EXCEPT !.scheduledTransition = << >>]]

\* cancelActiveTransition(): if (this.interpolationState) {...}
DropInterpolationState_InTwoCalls(w) ==
  [w EXCEPT !.engine.interpolationState =
     IF @ # << >> /\ @[1].active THEN << [@[1] EXCEPT !.active = FALSE] >>
     ELSE << >>]
DropInterpolationState(w) == [w EXCEPT !.engine.interpolationState = << >>]

\* cancelActiveTransition(), the code
CancelCode(w) == DropInterpolationState(StopInterpolationLoop(CancelScheduled(w)))

\* history: the live transition is ended; a timer of it that is still armed
\* is marked with how it was ended
MarkEnded(w, how) ==
  [w EXCEPT !.live = << >>,
            !.engine.timeouts =
               {[t EXCEPT !.dead = IF @ = "no" THEN how ELSE @] : t \in @}]

\* cancelActiveTransition(), with the history kept
CancelActiveTransition(w, how) == MarkEnded(CancelCode(w), how)

\* setTimeout(handler, delayMs), the handle stored in transitionTimerId
ArmTransitionTimer(w, kind, id, fade, repeat, delayMs) ==
  [w EXCEPT !.engine.transitionTimerId = TRUE,
            !.engine.timeouts =
               {[t EXCEPT !.current = FALSE] : t \in @}
               \cup {[kind |-> kind, snapshot |-> id, fadeTimeMs |-> fade,
                      repeatMode |-> repeat, wait |-> delayMs,
                      current |-> TRUE, dead |-> "no",
                      running |-> w.clock.isRunning]}]  \* history: the clock then

\* calculateTargetBeat(quantization, clockState)
CalculateTargetBeat(q, c) ==
  CASE q = "beat" -> c.currentBeat + 1
    [] q \in {"bar", "2bar", "4bar"} -> 0
    [] OTHER -> c.currentBeat

\* startInterpolationLoop(): the setInterval call; its handler is FrameHandler
StartInterpolationLoop(w) ==
  [w EXCEPT !.engine.interpolationTimerId = TRUE,
            !.engine.frames =
               {[t EXCEPT !.current = FALSE] : t \in @}
               \cup {[wait |-> FRAME_INTERVAL, period |-> FRAME_INTERVAL,
                      current |-> TRUE]}]

\* startJumpInterpolation: "Create interpolation state" from the targets
NewInterpolationState(s, id, fade, targets) ==
  [ active |-> TRUE,
    snapshot |-> id,
    startValues |-> [pid \in DOMAIN targets.val |->
                       GetCurrentValueOr(s, pid, targets.val[pid])],
    targetValues |-> targets.val,
    elapsed |-> 0,                     \* Date.now() - startTime
    duration |-> fade,
    parametersToInterpolate |-> targets.keys,
    sent |-> [pid \in DOMAIN targets.val |-> << >>] ]  \* history: last value sent

\* startJumpInterpolation(snapshot, fadeTimeMs), the targets being `targets`
StartJumpWith(w, id, fade, targets) ==
  IF Len(targets.keys) = 0 THEN [w EXCEPT !.live = << >>]
  ELSE StartInterpolationLoop(
         Observe([w EXCEPT
                    !.engine.interpolationState =
                       << NewInterpolationState(w.store, id, fade, targets) >>,
                    !.live = << [snapshot |-> id, mode |-> "jump",
                                 phase |-> "fading", fade |-> fade,
                                 from |-> IF w.live = << >> THEN "none"
                                          ELSE w.live[1].from] >>],
                 "update", id, << >>, << >>))

\* startJumpInterpolation(snapshot, fadeTimeMs)
StartJumpInterpolation(w, id, fade) ==
  StartJumpWith(w, id, fade, GetInterpolationTargets(w.store, id))

\* scheduleQuantizedJump(snapshot, settings)
ScheduleQuantizedJump(w, id, q, fade) ==
  ArmTransitionTimer(
    [w EXCEPT
       !.engine.scheduledTransition =
          << [snapshot |-> id, mode |-> "jump", targetBar |-> -1,
              targetBeat |-> CalculateTargetBeat(q, w.clock)] >>,
       !.live = << [snapshot |-> id, mode |-> "jump", fade |-> fade,
                    phase |-> "scheduled", from |-> "none"] >>],
    "jump", id, fade, FALSE, GetTimeUntilNextQuantization(w.clock, q))

\* executeJump(snapshot, settings) after its call of cancelActiveTransition
JumpAfterCancel(w, id, q, fade) ==
  IF q = "none" THEN StartJumpInterpolation(w, id, fade)
  ELSE ScheduleQuantizedJump(w, id, q, fade)

\* executeJump(snapshot, settings)
ExecuteJump(w, id, q, fade) ==
  JumpAfterCancel(CancelActiveTransition(w, "overridden"), id, q, fade)

\* executeDrop(snapshot, settings) after its call of cancelActiveTransition
\* and of getNextCycleBar
DropAfterCancel(w, id, targetBar, repeat) ==
  ArmTransitionTimer(
    [w EXCEPT
       !.engine.scheduledTransition =
          << [snapshot |-> id, mode |-> "drop", targetBar |-> targetBar,
              targetBeat |-> -1] >>,
       !.live = << [snapshot |-> id, mode |-> "drop", fade |-> 0,
                    phase |-> "scheduled", from |-> "none"] >>],
    "drop", id, 0, repeat, GetTimeUntilBar(w.clock, targetBar))

\* executeDrop(snapshot, settings)
ExecuteDrop(w, id, cycle, repeat) ==
  DropAfterCancel(CancelActiveTransition(w, "overridden"), id,
                  GetNextCycleBar(w.clock, cycle), repeat)

\* history: a callback called into the engine and the call returned
Returned(w, how, from) ==
  [w EXCEPT !.h = how,
            !.live = IF @ = << >> \/ how = "cancelled" THEN @
                     ELSE << [@[1] EXCEPT !.from = from] >>]

\* triggerJump / triggerDrop of the hook, and cancel(), as a callback calls
\* them; `from` names the callback
CallBack(w, call, from) ==
  CASE call.op = "cancel" ->
         Returned(CancelActiveTransition(w, "cancelled"), "cancelled", from)
    [] call.op = "jump" /\ Has(w.store, call.snapshot) ->
         Returned(ExecuteJump([w EXCEPT !.h = "no"], call.snapshot,
                              call.quantization, call.fadeTimeMs),
                  "overridden", from)
    [] call.op = "drop" /\ Has(w.store, call.snapshot) ->
         Returned(ExecuteDrop([w EXCEPT !.h = "no"], call.snapshot,
                              call.cycleLengthBars, call.repeatMode),
                  "overridden", from)
    [] OTHER -> w

\* messages.forEach(message => this.sendMidiMessage(message))
RECURSIVE SendAll(_, _, _)
SendAll(w, id, messages) ==
  IF messages = << >> THEN w
  ELSE SendAll(Observe(w, "message", id, <<Head(messages)>>, << >>), id,
               Tail(messages))

\* targets.forEach((value, parameterId) => updateCurrentValue(parameterId, value))
RECURSIVE UpdateAll(_, _, _)
UpdateAll(s, keys, val) ==
  IF keys = << >> THEN s
  ELSE UpdateAll(UpdateCurrentValue(s, Head(keys), val[Head(keys)]), Tail(keys), val)

\* executeDropImmediate: "Send all messages immediately"
DropSendsMessages(w, id) == SendAll(w, id, GetSnapshotMidiMessages(w.store, id))

\* executeDropImmediate: "Update current values", the targets being `targets`
DropUpdatesShadowWith(w, targets) ==
  [w EXCEPT !.store = UpdateAll(@, targets.keys, targets.val)]

\* executeDropImmediate: "Update current values"
DropUpdatesShadow_Forgotten(w, id) == w
DropUpdatesShadow(w, id) ==
  DropUpdatesShadowWith(w, GetInterpolationTargets(w.store, id))

\* executeDropImmediate: "Notify callback"; onComplete is what the
\* completion callback does
DropNotifies(w, id, onComplete) ==
  CallBack(Observe([w EXCEPT !.live = << >>], "complete", id, << >>, << >>),
           onComplete, "complete")

\* executeDropImmediate: this.scheduledTransition = null
DropClearsScheduled(w) == [w EXCEPT !.engine.scheduledTransition = << >>]

\* executeDropImmediate: the placeholder for repeatMode, an empty block
RepeatDrop(w, id, repeat) == w

\* executeDropImmediate(snapshot, repeatMode)
ExecuteDropImmediate_OnlyWhileRunning(w, id, repeat, onComplete) ==
  IF w.clock.isRunning
    THEN RepeatDrop(
           DropClearsScheduled(
             DropNotifies(DropUpdatesShadow(DropSendsMessages(w, id), id), id,
                          onComplete)),
           id, repeat)
    ELSE DropClearsScheduled([w EXCEPT !.live = << >>])
ExecuteDropImmediate(w, id, repeat, onComplete) ==
  RepeatDrop(
    DropClearsScheduled(
      DropNotifies(DropUpdatesShadow(DropSendsMessages(w, id), id), id, onComplete)),
    id, repeat)

\* the handler of scheduleQuantizedJump's timer
QuantizedJumpHandler(w, id, fade) ==
  DropClearsScheduled(StartJumpInterpolation(w, id, fade))

\* sendParameterValue: the 'temp' snapshot is created and given the parameter
WithTempSnapshot_WithOneShots(w, pid, value) ==
  [w EXCEPT !.store =
     UpdateSnapshot(
       UpdateSnapshotParameter(CreateSnapshotWithId(@, TempId), TempId, pid,
                               value, TRUE),
       TempId, [oneShotMessages |-> OneShotInput])]
WithTempSnapshot(w, pid, value) ==
  [w EXCEPT !.store = UpdateSnapshotParameter(CreateSnapshotWithId(@, TempId),
                                              TempId, pid, value, TRUE)]

\* history: the value sent last for each parameter of the interpolation
NoteSent(w, pid, value) ==
  [w EXCEPT !.engine.interpolationState =
     IF @ = << >> THEN @
     ELSE << [@[1] EXCEPT !.sent = [q \in (DOMAIN @) \cup {pid} |->
                                      IF q = pid THEN <<value>> ELSE @[q]]] >>]

SnapshotOfInterpolation(w) ==
  IF w.engine.interpolationState = << >> THEN 0
  ELSE w.engine.interpolationState[1].snapshot

\* sendParameterValue: if (messages.length > 0 && this.midiSendCallback)
\* this.midiSendCallback(messages[0]); onMessage is what the sink does
SendFirstOf(w, pid, messages, onMessage) ==
  IF Len(messages) > 0
    THEN CallBack(Observe(NoteSent(w, pid, messages[1].value), "message",
                          SnapshotOfInterpolation(w), <<messages[1]>>, << >>),
                  onMessage, "message")
    ELSE w

SendFirst(w, pid, onMessage) ==
  SendFirstOf(w, pid, GetSnapshotMidiMessages(w.store, TempId), onMessage)

\* sendParameterValue: this.snapshotEngine.deleteSnapshot(snapshot.id)
DeleteTempSnapshot(w) == [w EXCEPT !.store = DeleteSnapshot(@, TempId)]

\* sendParameterValue(parameterId, value)
SendParameterValue(w, pid, value, onMessage) ==
  DeleteTempSnapshot(SendFirst(WithTempSnapshot(w, pid, value), pid, onMessage))

\* Math.round(startValue + (targetValue - startValue) * easeOutCubic(progress))
\* with progress = Math.min(elapsed / duration, 1); elapsed / 0 is Infinity
InterpolatedValue(startValue, targetValue, elapsed, duration) ==
  IF duration = 0 \/ elapsed >= duration THEN targetValue
  ELSE (2 * (startValue * duration * duration * duration
             + (targetValue - startValue)
               * (duration * duration * duration
                  - (duration - elapsed) * (duration - elapsed) * (duration - elapsed)))
        + duration * duration * duration)
       \div (2 * duration * duration * duration)

\* Map.get(parameterId) ?? 0
ValueOr0(f, pid) == IF pid \in DOMAIN f THEN f[pid] ELSE 0

\* the body of the forEach of the interval handler, currentValue computed
SendAndUpdate_SendOnly(w, pid, currentValue, onMessage) ==
  SendParameterValue(w, pid, currentValue, onMessage)
SendAndUpdate(w, pid, currentValue, onMessage) ==
  [SendParameterValue(w, pid, currentValue, onMessage) EXCEPT
     !.store = UpdateCurrentValue(@, pid, currentValue)]

\* the body of the forEach of the interval handler for one parameter
FrameStep(w, pid, elapsed, duration, onMessage) ==
  SendAndUpdate(w, pid,
    InterpolatedValue(ValueOr0(w.engine.interpolationState[1].startValues, pid),
                      ValueOr0(w.engine.interpolationState[1].targetValues, pid),
                      elapsed, duration),
    onMessage)

\* the forEach over parametersToInterpolate in the interval handler, from
\* index i on; progress was computed before the loop from (elapsed,
\* duration); the sink calls back into the engine at index `at`
RECURSIVE FrameLoop(_, _, _, _, _, _, _)
FrameLoop(w, params, i, elapsed, duration, at, onMessage) ==
  IF i > Len(params) THEN w
  ELSE IF w.engine.interpolationState = << >>
    THEN \* this.interpolationState!.startValues: TypeError, the handler ends
         Observe(w, "throw", 0, << >>, << >>)
  ELSE FrameLoop(FrameStep(w, params[i], elapsed, duration,
                           IF i = at THEN onMessage ELSE NoCall),
                 params, i + 1, elapsed, duration, at, onMessage)

Threw(w) == \E i \in 1..Len(w.events) : w.events[i].cb = "throw"

\* the interval handler when progress >= 1.0, after stopInterpolationLoop()
CompleteStopped(w, onComplete) ==
  IF w.engine.interpolationState = << >>
    THEN \* this.interpolationState.active = false: TypeError
         Observe(w, "throw", 0, << >>, << >>)
    ELSE DropInterpolationState(
           CallBack(
             Observe([w EXCEPT !.engine.interpolationState[1].active = FALSE,
                               !.live = << >>],
                     "complete", w.engine.interpolationState[1].snapshot, << >>,
                     << [duration |-> w.engine.interpolationState[1].duration,
                         keys |-> w.engine.interpolationState[1].parametersToInterpolate,
                         targetValues |-> w.engine.interpolationState[1].targetValues,
                         sent |-> w.engine.interpolationState[1].sent] >>),
             onComplete, "complete"))

\* the interval handler: if (progress >= 1.0) {...}
FrameComplete(w, onComplete) == CompleteStopped(StopInterpolationLoop(w), onComplete)

\* the interval handler after the forEach: `done` is progress >= 1.0
FrameFinish(w, done, onComplete) ==
  IF Threw(w) \/ ~done THEN w ELSE FrameComplete(w, onComplete)

\* the interval handler: "Notify callback"
FrameNotify(w) ==
  IF ~Threw(w) /\ w.engine.interpolationState # << >>
    THEN Observe(w, "update", w.engine.interpolationState[1].snapshot, << >>, << >>)
    ELSE w

\* the interval handler once the state is known to be active
FrameOf(w, st, at, onMessage, onComplete) ==
  FrameNotify(
    FrameFinish(
      FrameLoop(w, st.parametersToInterpolate, 1, st.elapsed, st.duration,
                at, onMessage),
      st.duration = 0 \/ st.elapsed >= st.duration,
      onComplete))

\* the handler startInterpolationLoop passes to setInterval
FrameHandler(w, at, onMessage, onComplete) ==
  IF w.engine.interpolationState = << >> \/ ~w.engine.interpolationState[1].active
    THEN StopInterpolationLoop(w)
    ELSE FrameOf(w, w.engine.interpolationState[1], at, onMessage, onComplete)

(***************************************************************************)
(* Clock operations as actions.  Every call starts with an empty list of   *)
(* emitted events.                                                         *)
(***************************************************************************)
Fresh(c) == [c EXCEPT !.emitted = << >>]

ClockInit ==
  /\ \E bpb \in BeatsPerBarChoices : clock = NewClock(bpb)
  /\ nTicks = 0
  /\ store = NewStore
  /\ engine = NewEngine
  /\ out = NoOut
  /\ answer = NoAnswer
  /\ last = "init"

Start ==
  /\ clock' = ClockStart(Fresh(clock))
  /\ last' = "start"
  /\ answer' = NoAnswer
  /\ UNCHANGED <<nTicks, store, engine, out>>

Stop ==
  /\ clock' = ClockStop(Fresh(clock))
  /\ last' = "stop"
  /\ answer' = NoAnswer
  /\ UNCHANGED <<nTicks, store, engine, out>>

Reset ==
  /\ clock' = ClockReset(Fresh(clock))
  /\ nTicks' = 0
  /\ last' = "reset"
  /\ answer' = NoAnswer
  /\ UNCHANGED <<store, engine, out>>

\* a tick from the clock input port
MidiTick ==
  /\ clock.currentBar < MaxBar
  /\ clock' = ProcessMidiClockTick(Fresh(clock))
  /\ nTicks' = IF TickIsProcessed(clock) THEN nTicks + 1 ELSE nTicks
  /\ last' = "midiTick"
  /\ answer' = NoAnswer
  /\ UNCHANGED <<store, engine, out>>

MidiStart ==
  /\ clock' = ProcessMidiStart(Fresh(clock))
  /\ nTicks' = 0
  /\ last' = "midiStart"
  /\ answer' = NoAnswer
  /\ UNCHANGED <<store, engine, out>>

MidiStop ==
  /\ clock' = ProcessMidiStop(Fresh(clock))
  /\ last' = "midiStop"
  /\ answer' = NoAnswer
  /\ UNCHANGED <<nTicks, store, engine, out>>

MidiContinue ==
  /\ clock' = ProcessMidiContinue(Fresh(clock))
  /\ last' = "midiContinue"
  /\ answer' = NoAnswer
  /\ UNCHANGED <<nTicks, store, engine, out>>

ChangeSource ==
  /\ \E s \in ClockSources :
       /\ clock' = SetClockSource(Fresh(clock), s)
       /\ answer' = [arg |-> s, result |-> NULL]
  /\ last' = "setClockSource"
  /\ UNCHANGED <<nTicks, store, engine, out>>

ChangeBpm ==
  /\ \E b \in BpmInputs :
       /\ clock' = SetBpm(Fresh(clock), b)
       /\ answer' = [arg |-> b, result |-> NULL]
  /\ last' = "setBpm"
  /\ UNCHANGED <<nTicks, store, engine, out>>

\* the handler of the internal tick timer: () => this.processMidiClockTick()
InternalTick ==
  /\ clock.currentBar < MaxBar
  /\ \E t \in clock.intervals :
       /\ t.wait = 0
       /\ LET c1 == [Fresh(clock) EXCEPT
                       !.intervals = (@ \ {t}) \cup {[t EXCEPT !.wait = t.period]}]
          IN clock' = ProcessMidiClockTick(c1)
  /\ nTicks' = IF TickIsProcessed(clock) THEN nTicks + 1 ELSE nTicks
  /\ last' = "internalTick"
  /\ answer' = NoAnswer
  /\ UNCHANGED <<store, engine, out>>

\* time passes until the next armed timer is due
ClockAdvanceTime ==
  /\ clock.intervals # {}
  /\ \A t \in clock.intervals : t.wait > 0
  /\ LET d == CHOOSE d \in {t.wait : t \in clock.intervals} :
                 \A t \in clock.intervals : d <= t.wait
     IN clock' = [clock EXCEPT
                    !.intervals = {[t EXCEPT !.wait = @ - d] : t \in @}]
  /\ last' = "time"
  /\ answer' = NoAnswer
  /\ UNCHANGED <<nTicks, store, engine, out>>

\* getNextCycleBar(k), called by a client of the clock
QueryNextCycleBar ==
  /\ \E k \in 1..MaxCycle :
       answer' = [arg |-> k, result |-> GetNextCycleBar(clock, k)]
  /\ last' = "getNextCycleBar"
  /\ UNCHANGED <<clock, nTicks, store, engine, out>>

\* getTimeUntilNextQuantization(q), called by a client of the clock
QueryTimeUntilNextQuantization ==
  /\ \E q \in Quantizations :
       answer' = [arg |-> q, result |-> GetTimeUntilNextQuantization(clock, q)]
  /\ last' = "getTimeUntilNextQuantization"
  /\ UNCHANGED <<clock, nTicks, store, engine, out>>

\* getTimeUntilBar(targetBar), called by a client of the clock
QueryTimeUntilBar ==
  /\ \E targetBar \in 0..(MaxBar + 1) :
       answer' = [arg |-> targetBar, result |-> GetTimeUntilBar(clock, targetBar)]
  /\ last' = "getTimeUntilBar"
  /\ UNCHANGED <<clock, nTicks, store, engine, out>>

ClockNext ==
  \/ Start
  \/ Stop
  \/ Reset
  \/ MidiTick
  \/ MidiStart
  \/ MidiStop
  \/ MidiContinue
  \/ ChangeSource
  \/ ChangeBpm
  \/ InternalTick
  \/ ClockAdvanceTime
  \/ QueryNextCycleBar
  \/ QueryTimeUntilNextQuantization
  \/ QueryTimeUntilBar

SpecClock == ClockInit /\ [][ClockNext]_vars

(***************************************************************************)
(* The snapshot store and the transition engine as actions.  The clock     *)
(* stands still at a position (the engine reads it, and reads only its     *)
(* position and tempo); time is the delays of the engine's timers.         *)
(***************************************************************************)

World == [clock |-> clock, store |-> store, engine |-> engine,
          events |-> << >>, h |-> "no", live |-> out.live]

Elapsed(e) ==
  IF e.interpolationState = << >> THEN -1 ELSE e.interpolationState[1].elapsed

Ran(op, id) == [NoRan EXCEPT !.op = op, !.snapshot = id]

Commit(w, name, ran) ==
  /\ store' = w.store
  /\ engine' = w.engine
  /\ out' = [events |-> w.events, live |-> w.live, ran |-> ran]
  /\ last' = name
  /\ UNCHANGED <<clock, nTicks, answer>>

Edit(s, name) ==
  /\ store' = s
  /\ out' = [out EXCEPT !.events = << >>, !.ran = NoRan]
  /\ last' = name
  /\ answer' = NoAnswer
  /\ UNCHANGED <<clock, engine, nTicks>>

\* a clock that received the ticks of `bar` bars and `beat` beats from the
\* external source
ClockAt(bar, beat) ==
  [NewClock(DefaultBeatsPerBar) EXCEPT
     !.source = "midi", !.currentBar = bar, !.currentBeat = beat,
     !.lastBeat = IF bar = 0 /\ beat = 0 THEN -1 ELSE beat,
     !.lastBar = IF bar = 0 THEN -1 ELSE bar]

\* the stores the engine is run on, each made from the empty store by the
\* store's own operations: snapshot 1 holds two parameters the registry
\* knows; snapshot 2 holds one it knows, one it does not know, a disabled
\* one, and one-shot messages
TwoSnapshots == CreateSnapshot(CreateSnapshot(NewStore))
FillFirst(s) ==
  UpdateSnapshotParameter(
    UpdateSnapshotParameter(s, 1, "tempo", SnapshotValue, TRUE),
    1, "groove", SnapshotValue, TRUE)
FillSecond(s) ==
  UpdateSnapshot(
    ToggleParameterEnabled(
      UpdateSnapshotParameter(
        UpdateSnapshotParameter(
          UpdateSnapshotParameter(s, 2, "tempo", SnapshotValue, TRUE),
          2, "custom", SnapshotValue, TRUE),
        2, "groove", SnapshotValue, TRUE),
      2, "groove"),
    2, [oneShotMessages |-> OneShotInput])
StoreInputs == {FillSecond(FillFirst(TwoSnapshots))}

Init ==
  /\ \E pos \in ClockPositions :
       /\ clock = ClockAt(pos[1], pos[2])
       /\ nTicks = (pos[1] * DefaultBeatsPerBar + pos[2]) * PPQN
  /\ store \in StoreInputs
  /\ engine = NewEngine
  /\ out = NoOut
  /\ answer = NoAnswer
  /\ last = "init"

StoredIds == DOMAIN store.snapshots

\* deleteSnapshot(id)
RemoveSnapshot ==
  \E id \in StoredIds : Edit(DeleteSnapshot(store, id), "deleteSnapshot")

\* the ids createSnapshot has returned so far, stored or deleted since
IssuedIds == 1..(store.nextId - 1)

\* triggerJump(snapshotId) of the hook: getSnapshot(snapshotId), return if
\* there is none, executeJump otherwise
TriggerJumpOf_NoLookup(w, id, q, fade) == ExecuteJump(w, id, q, fade)
TriggerJumpOf(w, id, q, fade) ==
  IF ~Has(w.store, id) THEN w ELSE ExecuteJump(w, id, q, fade)

\* triggerDrop(snapshotId) of the hook: getSnapshot(snapshotId), return if
\* there is none, executeDrop otherwise
TriggerDropOf(w, id, cycle, repeat) ==
  IF ~Has(w.store, id) THEN w ELSE ExecuteDrop(w, id, cycle, repeat)

\* triggerJump(snapshotId) of the hook, the transition settings being
\* (quantization q, fadeTimeMs fade)
TriggerJump ==
  \E id \in StoredIds, q \in JumpQuantizations, fade \in FadeInputs :
    Commit(TriggerJumpOf(World, id, q, fade), "triggerJump", Ran("jump", id))

\* triggerDrop(snapshotId) of the hook, the transition settings being
\* (cycleLengthBars k, repeatMode repeat)
TriggerDrop ==
  \E id \in StoredIds, k \in CycleInputs, repeat \in BOOLEAN :
    Commit(TriggerDropOf(World, id, k, repeat), "triggerDrop",
           [Ran("drop", id) EXCEPT !.repeatMode = repeat])

\* cancelTransition() of the hook
Cancel ==
  Commit(CancelActiveTransition(World, "cancelled"), "cancel",
         [Ran("cancel", 0) EXCEPT !.was = out.live,
                                  !.wasElapsed = Elapsed(engine)])

\* what a callback may do: nothing, cancel(), or trigger a stored snapshot.
\* on_complete and the sink of a Jump frame may do any of these; the sink
\* only receives while a Drop fires, and on_interpolation_update only
\* records the state, as the callbacks the hook registers do.
Calls ==
  {NoCall, [NoCall EXCEPT !.op = "cancel"]}
  \cup {[NoCall EXCEPT !.op = "jump", !.snapshot = id, !.quantization = q,
                       !.fadeTimeMs = CallbackFade] :
          id \in StoredIds, q \in JumpQuantizations}
  \cup {[NoCall EXCEPT !.op = "drop", !.snapshot = id] : id \in StoredIds}

\* a timer armed by scheduleQuantizedJump or executeDrop is due: its handler;
\* `calls` is what the completion callback may do
TimeoutFireWith(calls) ==
  \E t \in engine.timeouts, onComplete \in calls :
    /\ t.wait = 0
    /\ t.kind = "jump" => onComplete = NoCall
    /\ LET w0 == [World EXCEPT !.engine.timeouts = @ \ {t}, !.h = t.dead]
           w1 == IF t.kind = "jump"
                   THEN QuantizedJumpHandler(w0, t.snapshot, t.fadeTimeMs)
                   ELSE ExecuteDropImmediate(w0, t.snapshot, t.repeatMode,
                                             onComplete)
       IN Commit(w1, "timeoutFire",
                 [Ran(t.kind, t.snapshot) EXCEPT
                    !.repeatMode = t.repeatMode, !.stale = t.dead,
                    !.onComplete = onComplete, !.armedRunning = t.running])

\* the interval timer of startInterpolationLoop is due: its handler; the
\* sink calls back at parameter `at` (0: it does not), at most one callback
\* calls back in one frame; `calls` is what the callbacks may do
FrameFireWith(calls) ==
  \E t \in engine.frames, at \in 0..Cardinality(ParamIds), onMessage \in calls,
     onComplete \in calls :
    /\ t.wait = 0
    /\ (at = 0) <=> (onMessage = NoCall)
    /\ onMessage # NoCall => onComplete = NoCall
    /\ engine.interpolationState # << >> =>
         at <= Len(engine.interpolationState[1].parametersToInterpolate)
    /\ engine.interpolationState = << >> => (at = 0 /\ onComplete = NoCall)
    /\ LET w0 == [World EXCEPT !.engine.frames =
                    (@ \ {t}) \cup {[t EXCEPT !.wait = t.period]}]
           id == IF engine.interpolationState = << >> THEN 0
                 ELSE engine.interpolationState[1].snapshot
       IN Commit(FrameHandler(w0, at, onMessage, onComplete), "frameFire",
                 [Ran("frame", id) EXCEPT !.at = at, !.onMessage = onMessage,
                                          !.onComplete = onComplete])

FrameFire == FrameFireWith(Calls)

TimeoutFire == TimeoutFireWith(Calls)

\* time passes until the next armed timer of the engine is due
AdvanceTime ==
  LET waits == {t.wait : t \in engine.timeouts \cup engine.frames}
  IN /\ waits # {}
     /\ \A d \in waits : d > 0
     /\ LET d == CHOOSE d \in waits : \A x \in waits : d <= x
        IN engine' = [engine EXCEPT
             !.timeouts = {[t EXCEPT !.wait = @ - d] : t \in @},
             !.frames = {[t EXCEPT !.wait = @ - d] : t \in @},
             !.interpolationState =
                IF @ = << >> THEN @
                ELSE << [@[1] EXCEPT !.elapsed =
                           Min(@ + d, Max(engine.interpolationState[1].duration, 1))] >>]
     /\ out' = [out EXCEPT !.events = << >>, !.ran = NoRan]
     /\ last' = "time"
     /\ UNCHANGED <<clock, store, nTicks, answer>>

Next ==
  \/ RemoveSnapshot
  \/ TriggerJump
  \/ TriggerDrop
  \/ Cancel
  \/ TimeoutFire
  \/ FrameFire
  \/ AdvanceTime

Spec == Init /\ [][Next]_vars

(***************************************************************************)
(* The transition engine on a clock whose transport the client starts and  *)
(* stops while transitions are scheduled.                                  *)
(***************************************************************************)
TransportPositions == {<<1, 1>>}

InitRunning ==
  /\ \E pos \in TransportPositions :
       /\ clock = ClockStart(ClockAt(pos[1], pos[2]))
       /\ nTicks = (pos[1] * DefaultBeatsPerBar + pos[2]) * PPQN
  /\ store \in StoreInputs
  /\ engine = NewEngine
  /\ out = NoOut
  /\ answer = NoAnswer
  /\ last = "init"

\* the clock's operation op, called by the client of the engine
Transport(c, name) ==
  /\ clock' = c
  /\ out' = [out EXCEPT !.events = << >>, !.ran = NoRan]
  /\ last' = name
  /\ answer' = NoAnswer
  /\ UNCHANGED <<store, engine, nTicks>>

\* stop() of the clock
StopClock == Transport(ClockStop(Fresh(clock)), "stop")

\* start() of the clock
StartClock == Transport(ClockStart(Fresh(clock)), "start")

NextTransport ==
  \/ StopClock
  \/ StartClock
  \/ RemoveSnapshot
  \/ TriggerJump
  \/ TriggerDrop
  \/ Cancel
  \/ TimeoutFire
  \/ FrameFire
  \/ AdvanceTime

SpecTransport == InitRunning /\ [][NextTransport]_vars

(***************************************************************************)
(* The transition engine triggered with ids of snapshots that were         *)
(* deleted, on a store one snapshot of which was deleted.                  *)
(***************************************************************************)
InitDeleted ==
  /\ \E pos \in ClockPositions :
       /\ clock = ClockAt(pos[1], pos[2])
       /\ nTicks = (pos[1] * DefaultBeatsPerBar + pos[2]) * PPQN
  /\ \E s \in StoreInputs : store = DeleteSnapshot(s, s.nextId - 1)
  /\ engine = NewEngine
  /\ out = NoOut
  /\ answer = NoAnswer
  /\ last = "init"

\* triggerJump(snapshotId) of the hook with the id of a deleted snapshot
TriggerJumpMissing ==
  \E id \in IssuedIds \ StoredIds, q \in JumpQuantizations, fade \in FadeInputs :
    Commit(TriggerJumpOf(World, id, q, fade), "triggerJump", Ran("jump", id))

\* triggerDrop(snapshotId) of the hook with the id of a deleted snapshot
TriggerDropMissing ==
  \E id \in IssuedIds \ StoredIds, k \in CycleInputs, repeat \in BOOLEAN :
    Commit(TriggerDropOf(World, id, k, repeat), "triggerDrop",
           [Ran("drop", id) EXCEPT !.repeatMode = repeat])

NextMissing ==
  \/ TriggerJumpMissing
  \/ TriggerDropMissing
  \/ RemoveSnapshot
  \/ TriggerJump
  \/ TriggerDrop
  \/ Cancel
  \/ TimeoutFire
  \/ FrameFire
  \/ AdvanceTime

SpecMissing == InitDeleted /\ [][NextMissing]_vars

(***************************************************************************)
(* The transition engine running Jumps without a fade, triggered by the    *)
(* client and from the callbacks.                                          *)
(***************************************************************************)

\* what a callback may do here: nothing, or trigger an immediate Jump
\* without a fade on a stored snapshot
ZeroFadeCalls ==
  {NoCall}
  \cup {[NoCall EXCEPT !.op = "jump", !.snapshot = id] : id \in StoredIds}

\* triggerJump(snapshotId) of the hook, the settings being fadeTimeMs 0
TriggerJumpZeroFade ==
  \E id \in StoredIds, q \in JumpQuantizations :
    Commit(TriggerJumpOf(World, id, q, 0), "triggerJump", Ran("jump", id))

FrameFireZeroFade == FrameFireWith(ZeroFadeCalls)

NextZeroFade ==
  \/ TriggerJumpZeroFade
  \/ FrameFireZeroFade
  \/ RemoveSnapshot
  \/ Cancel
  \/ TimeoutFire
  \/ AdvanceTime

SpecZeroFade == Init /\ [][NextZeroFade]_vars

(***************************************************************************)
(* Drops scheduled on a clock that runs on the external source: the ticks  *)
(* arrive when the external device sends them, the engine's timers are due *)
(* when their delay has passed.                                            *)
(***************************************************************************)

\* a tick from the clock input port while the engine is in use
ExternalTick ==
  /\ clock.currentBar < MaxBar
  /\ clock' = ProcessMidiClockTick(Fresh(clock))
  /\ nTicks' = IF TickIsProcessed(clock) THEN nTicks + 1 ELSE nTicks
  /\ out' = [out EXCEPT !.events = << >>, !.ran = NoRan]
  /\ last' = "midiTick"
  /\ answer' = NoAnswer
  /\ UNCHANGED <<store, engine>>

\* the timer of a Drop is due; the completion callback only records
TimeoutFireQuiet == TimeoutFireWith({NoCall})

NextExternal ==
  \/ ExternalTick
  \/ TriggerDrop
  \/ Cancel
  \/ TimeoutFireQuiet
  \/ AdvanceTime

SpecExternal == InitRunning /\ [][NextExternal]_vars

(***************************************************************************)
(* One Jump, triggered by the client on an idle engine and then left to    *)
(* the engine's timers: nothing cancels it and nothing is triggered after  *)
(* it.  The store holds a snapshot with enabled parameters (1), one with   *)
(* no parameters (2) and one whose only parameter is disabled (3).  The    *)
(* JavaScript runtime runs the handler of every timer that is due, and     *)
(* time passes: the timer actions are weakly fair.                         *)
(***************************************************************************)
LoneJumpStore ==
  ToggleParameterEnabled(
    UpdateSnapshotParameter(CreateSnapshot(FillFirst(TwoSnapshots)), 3, "groove",
                            SnapshotValue, TRUE),
    3, "groove")

InitLoneJump ==
  /\ \E pos \in ClockPositions :
       /\ clock = ClockAt(pos[1], pos[2])
       /\ nTicks = (pos[1] * DefaultBeatsPerBar + pos[2]) * PPQN
  /\ store = LoneJumpStore
  /\ engine = NewEngine
  /\ out = NoOut
  /\ answer = NoAnswer
  /\ last = "init"

\* triggerJump(snapshotId) of the hook, called once
TriggerLoneJump ==
  /\ last = "init"
  /\ \E id \in StoredIds, q \in {"none"} \cup Quantizations, fade \in FadeInputs :
       Commit(TriggerJumpOf(World, id, q, fade), "triggerJump", Ran("jump", id))

\* the frame timer is due; the callbacks only record
FrameFireQuiet == FrameFireWith({NoCall})

NextLoneJump ==
  \/ TriggerLoneJump
  \/ TimeoutFireQuiet
  \/ FrameFireQuiet
  \/ AdvanceTime

\* ENABLED <<FrameFireQuiet>>_vars: a frame timer is due (its handler re-arms
\* the timer or clears it, so the step changes the state)
FrameDue == \E t \in engine.frames : t.wait = 0

\* the third condition is WF_vars(FrameFireQuiet) written out
SpecLoneJump ==
  /\ InitLoneJump
  /\ [][NextLoneJump]_vars
  /\ WF_vars(TimeoutFireQuiet)
  /\ WF_vars(AdvanceTime)
  /\ ([]<>(~FrameDue) \/ []<><<FrameFireQuiet>>_vars)

(***************************************************************************)
(* The snapshot store alone: its operations as actions, called by a client *)
(* in any order on a store that starts as the constructor leaves it.       *)
(***************************************************************************)

\* the parameter ids, values, patches and lists the client passes
StoreParamInputs == {"tempo"}
ShadowInputs == {"tempo", "custom"}
StoreValueInputs == {200}
PatchInputs ==
  { [oneShotMessages |-> OneShotInput],
    [parameters |-> << [parameterId |-> "tempo", value |-> 200, isEnabled |-> TRUE],
                       [parameterId |-> "tempo", value |-> 64, isEnabled |-> TRUE] >>] }
LoadInputs ==
  { << >>,
    << [id |-> -1, bank |-> 0, slot |-> 0, createdAt |-> 0, modifiedAt |-> 0,
        oneShotMessages |-> << >>,
        parameters |-> << [parameterId |-> "groove", value |-> -1,
                           isEnabled |-> TRUE] >>] >> }

StoreInit ==
  /\ clock = NewClock(DefaultBeatsPerBar)
  /\ nTicks = 0
  /\ store = NewStore
  /\ engine = NewEngine
  /\ out = NoOut
  /\ answer = NoAnswer
  /\ last = "init"

\* createSnapshot(bank, slot)
CreateEmpty ==
  /\ store.nextId <= MaxSnapshots
  /\ Edit(CreateSnapshot(store), "createSnapshot")

\* captureSnapshot(bank, slot) and, on the snapshot it returns,
\* getSnapshotMidiMessages(snapshot.id)
CaptureAndEncode ==
  /\ store.nextId <= MaxSnapshots
  /\ store' = CaptureSnapshot(store)
  /\ answer' = [arg |-> store.nextId,
                result |-> GetSnapshotMidiMessages(store', store.nextId)]
  /\ out' = [out EXCEPT !.events = << >>, !.ran = NoRan]
  /\ last' = "captureSnapshot"
  /\ UNCHANGED <<clock, engine, nTicks>>

\* updateSnapshot(id, updates)
PatchSnapshot ==
  \E id \in StoredIds, u \in PatchInputs :
    /\ "parameters" \in DOMAIN u => store.nextArray <= MaxArrays
    /\ Edit(UpdateSnapshot(store, id, u), "updateSnapshot")

\* updateSnapshotParameter(snapshotId, parameterId, value)
SetParameter ==
  \E id \in StoredIds, pid \in StoreParamInputs, v \in StoreValueInputs :
    Edit(UpdateSnapshotParameter(store, id, pid, v, TRUE), "updateSnapshotParameter")

\* removeSnapshotParameter(snapshotId, parameterId)
RemoveParameter ==
  \E id \in StoredIds, pid \in StoreParamInputs :
    Edit(RemoveSnapshotParameter(store, id, pid), "removeSnapshotParameter")

\* toggleParameterEnabled(snapshotId, parameterId)
ToggleParameter ==
  \E id \in StoredIds, pid \in StoreParamInputs :
    Edit(ToggleParameterEnabled(store, id, pid), "toggleParameterEnabled")

\* copySnapshot(sourceId, targetBank, targetSlot)
Copy ==
  /\ store.nextId <= MaxSnapshots
  /\ \E id \in StoredIds : Edit(CopySnapshot(store, id, 0, 1), "copySnapshot")

\* loadSnapshots(snapshots)
Load ==
  /\ store.nextArray <= MaxArrays
  /\ \E list \in LoadInputs : Edit(LoadSnapshots(store, list), "loadSnapshots")

\* updateCurrentValue(parameterId, value)
SetCurrent ==
  \E pid \in ShadowInputs, v \in StoreValueInputs :
    Edit(UpdateCurrentValue(store, pid, v), "updateCurrentValue")

StoreNext ==
  \/ CreateEmpty
  \/ CaptureAndEncode
  \/ PatchSnapshot
  \/ SetParameter
  \/ RemoveParameter
  \/ ToggleParameter
  \/ Copy
  \/ RemoveSnapshot
  \/ Load
  \/ SetCurrent

SpecStore == StoreInit /\ [][StoreNext]_vars

(***************************************************************************)
(* The snapshot store as a keeper of records: its mutations called with    *)
(* ids it holds and ids it does not hold, while time passes.               *)
(***************************************************************************)
ForeignId == -1      \* an id string uuidv4() never returned
CreateAddresses == {<<0, 0>>}
CopyAddresses == {<<1, 2>>}
RecordIds == IssuedIds \cup {ForeignId}
RecordParamInputs == {"tempo", "groove"}
RecordPatchInputs ==
  { [oneShotMessages |-> OneShotInput],
    [id |-> ForeignId],
    [bank |-> 1, slot |-> 2, createdAt |-> 0] }

\* a call of a mutation: the store it leaves, its arguments and what it returned
Call(s, name, arg, result) ==
  /\ store' = s
  /\ answer' = [arg |-> arg, result |-> result]
  /\ out' = [out EXCEPT !.events = << >>, !.ran = NoRan]
  /\ last' = name
  /\ UNCHANGED <<clock, engine, nTicks>>

\* Date.now() moves on
PassTime ==
  /\ store.now < MaxNow
  /\ Call([store EXCEPT !.now = @ + 1], "time", << >>, << >>)

\* createSnapshot(bank, slot)
CreateRecord ==
  /\ store.nextId <= MaxSnapshots
  /\ \E a \in CreateAddresses :
       Call(CreateSnapshotIn(store, a[1], a[2]), "createSnapshot", <<a>>,
            << CreateSnapshotIn(store, a[1], a[2]).snapshots[store.nextId] >>)

\* updateSnapshot(id, updates)
UpdateRecord ==
  \E id \in RecordIds, u \in RecordPatchInputs :
    Call(UpdateSnapshot(store, id, u), "updateSnapshot", <<id, u>>,
         UpdateSnapshotResult(store, id, u))

\* deleteSnapshot(id)
DeleteRecord ==
  \E id \in RecordIds :
    Call(DeleteSnapshot(store, id), "deleteSnapshot", <<id>>,
         DeleteSnapshotResult(store, id))

\* copySnapshot(sourceId, targetBank, targetSlot)
CopyRecord ==
  /\ store.nextId <= MaxSnapshots
  /\ \E id \in RecordIds, a \in CopyAddresses :
       Call(CopySnapshot(store, id, a[1], a[2]), "copySnapshot", <<id, a>>,
            CopySnapshotResult(store, id, a[1], a[2]))

\* updateSnapshotParameter(snapshotId, parameterId, value)
SetRecordParameter ==
  \E id \in RecordIds, v \in StoreValueInputs :
    Call(UpdateSnapshotParameter(store, id, "tempo", v, TRUE),
         "updateSnapshotParameter", <<id, "tempo">>,
         UpdateSnapshotParameterResult(store, id))

\* removeSnapshotParameter(snapshotId, parameterId)
RemoveRecordParameter ==
  \E id \in RecordIds, pid \in RecordParamInputs :
    Call(RemoveSnapshotParameter(store, id, pid), "removeSnapshotParameter",
         <<id, pid>>, RemoveSnapshotParameterResult(store, id, pid))

\* toggleParameterEnabled(snapshotId, parameterId)
ToggleRecordParameter ==
  \E id \in RecordIds, pid \in RecordParamInputs :
    Call(ToggleParameterEnabled(store, id, pid), "toggleParameterEnabled",
         <<id, pid>>, ToggleParameterEnabledResult(store, id, pid))

NextRecords ==
  \/ PassTime
  \/ CreateRecord
  \/ UpdateRecord
  \/ DeleteRecord
  \/ CopyRecord
  \/ SetRecordParameter
  \/ RemoveRecordParameter
  \/ ToggleRecordParameter

SpecRecords == StoreInit /\ [][NextRecords]_vars

(***************************************************************************)
(* Quantized Jumps on a store and a shadow the client edits while the Jump *)
(* waits for its deadline.  The callbacks only record, and every fade runs *)
(* to its end.                                                             *)
(***************************************************************************)

\* triggerJump(snapshotId) of the hook, the settings holding a quantization,
\* called while no fade is running
TriggerQuantizedJump ==
  /\ engine.interpolationState = << >>
  /\ \E id \in StoredIds, q \in Quantizations, fade \in FadeInputs :
       Commit(TriggerJumpOf(World, id, q, fade), "triggerJump", Ran("jump", id))

\* a transition is scheduled and waits for its deadline
Waiting == engine.scheduledTransition # << >>

\* updateSnapshotParameter(snapshotId, parameterId, value) on the snapshot
\* that waits
SetWaitingParameter ==
  /\ Waiting
  /\ \E pid \in StoreParamInputs, v \in StoreValueInputs :
       Edit(UpdateSnapshotParameter(store, engine.scheduledTransition[1].snapshot,
                                    pid, v, TRUE),
            "updateSnapshotParameter")

\* toggleParameterEnabled(snapshotId, parameterId) on the snapshot that waits
ToggleWaitingParameter ==
  /\ Waiting
  /\ \E pid \in RecordParamInputs :
       Edit(ToggleParameterEnabled(store, engine.scheduledTransition[1].snapshot,
                                   pid),
            "toggleParameterEnabled")

\* updateCurrentValue(parameterId, value) while a transition waits
SetCurrentWaiting == Waiting /\ SetCurrent

NextQuantized ==
  \/ TriggerQuantizedJump
  \/ SetWaitingParameter
  \/ ToggleWaitingParameter
  \/ SetCurrentWaiting
  \/ TimeoutFireQuiet
  \/ FrameFireQuiet
  \/ AdvanceTime

SpecQuantized == Init /\ [][NextQuantized]_vars

(***************************************************************************)
(* Claims about the transition engine, checked under Spec.                 *)
(***************************************************************************)

\* the positions in out.events at which the sink was handed a message
MessageEvents == {i \in 1..Len(out.events) : out.events[i].cb = "message"}

\* a message encodes (p, v) when it is what the registry's entry for p and
\* the value v make
Encodes(m, pid, v) == ParameterToMidiMessage(pid, v) = <<m>>
Registered(pid) == ToUpperCase(pid) \in DOMAIN OPXY_PARAMETERS

\* the step just taken was the firing of a scheduled Drop on a snapshot the
\* store holds
DropFired ==
  /\ last = "timeoutFire"
  /\ out.ran.op = "drop"
  /\ Has(store, out.ran.snapshot)

C2_JumpEmitsAndReachesTarget ==
  /\ \A i \in 1..Len(out.events) :
       LET e == out.events[i]
       IN (e.cb = "complete" /\ e.fade # << >> /\ e.stale = "no"
             /\ e.fade[1].duration > 0) =>
            \A k \in 1..Len(e.fade[1].keys) :
              LET pid == e.fade[1].keys[k]
              IN Registered(pid) =>
                   /\ e.fade[1].sent[pid] = <<e.fade[1].targetValues[pid]>>
                   /\ GetCurrentValueOr(store, pid, -1) = e.fade[1].targetValues[pid]
  /\ (out.live # << >> /\ out.live[1].mode = "jump"
        /\ out.live[1].phase = "fading" /\ out.live[1].fade > 0) =>
       /\ engine.interpolationState # << >>
       /\ engine.interpolationState[1].active
       /\ engine.interpolationState[1].snapshot = out.live[1].snapshot
       /\ \E t \in engine.frames : t.current

\* C3: after cancel() returns, whether a Jump or Drop was scheduled but not
\* fired or a Jump was mid-interpolation, no message of that transition is
\* delivered to the sink again and neither on_interpolation_update nor
\* on_complete fires for it (no callback is invoked for a cancelled
\* transition and no timer of one stays armed); scheduled() and
\* interpolation() are absent and is_active() is false.
C3_NothingAfterCancel ==
  /\ \A i \in 1..Len(out.events) :
       out.events[i].cb \in {"message", "update", "complete"} =>
         out.events[i].stale # "cancelled"
  /\ \A t \in engine.timeouts : t.dead # "cancelled"
  /\ last = "cancel" =>
       /\ engine.scheduledTransition = << >>
       /\ engine.interpolationState = << >>
       /\ ~IsTransitionActive(engine)
       /\ engine.timeouts = {}
       /\ engine.frames = {}

\* C3 witness: cancel() returned after a Jump had sent the values of its
\* first frame: the shadow holds the intermediate value.
C3_Witness ==
  /\ last = "cancel"
  /\ out.ran.was # << >>
  /\ out.ran.was[1].mode = "jump"
  /\ out.ran.was[1].phase = "fading"
  /\ out.ran.wasElapsed = FRAME_INTERVAL
  /\ store.currentValues["tempo"] \notin {TempoDefault, SnapshotValue}

\* C4: if execute_jump or execute_drop is called while an earlier transition
\* is scheduled or interpolating, the earlier transition never delivers
\* another message and never fires on_complete: no message and no
\* completion comes from a handler whose transition was overridden, and no
\* timer of an overridden transition stays armed.
C4_OverriddenNeverFiresAgain ==
  /\ \A i \in 1..Len(out.events) :
       out.events[i].cb \in {"message", "complete"} =>
         out.events[i].stale # "overridden"
  /\ \A t \in engine.timeouts : t.dead # "overridden"

\* C5: a transition started from inside the on_complete callback of the
\* previous one behaves like one started at any other time: until it
\* finishes it is visible through scheduled() while it waits and through
\* interpolation() and is_active() while it fades.
C5_StartedInCompletionStaysVisible ==
  (out.live # << >> /\ out.live[1].from = "complete") =>
    /\ out.live[1].phase = "scheduled" =>
         /\ engine.scheduledTransition # << >>
         /\ engine.scheduledTransition[1].snapshot = out.live[1].snapshot
         /\ engine.scheduledTransition[1].mode = out.live[1].mode
    /\ out.live[1].phase = "fading" =>
         /\ engine.interpolationState # << >>
         /\ engine.interpolationState[1].snapshot = out.live[1].snapshot
    /\ IsTransitionActive(engine)

\* C6: after a Drop triggered with repeat=true fires, the engine has
\* scheduled the same snapshot again for the following cycle boundary:
\* scheduled() is present with mode drop and a timer is armed for it.
C6_RepeatDropIsRescheduled ==
  (last = "timeoutFire" /\ out.ran.op = "drop" /\ out.ran.repeatMode
     /\ out.ran.onComplete = NoCall) =>
    /\ engine.scheduledTransition # << >>
    /\ engine.scheduledTransition[1].mode = "drop"
    /\ engine.scheduledTransition[1].snapshot = out.ran.snapshot
    /\ \E t \in engine.timeouts : t.kind = "drop" /\ t.snapshot = out.ran.snapshot

(***************************************************************************)
(* Claims about the clock, checked under SpecClock.                        *)
(***************************************************************************)

\* C7: while source=internal and the clock is running, every firing of the
\* internal tick timer advances the clock by one tick: the accumulator is
\* incremented (wrapping at ppqn) and a tick event is emitted.
C7_InternalTickAdvances ==
  [][ (InternalTick /\ clock.source = "internal" /\ clock.isRunning)
        => /\ clock'.tickCount = (clock.tickCount + 1) % clock.ppqn
           /\ \E i \in 1..Len(clock'.emitted) : clock'.emitted[i].type = "tick" ]_vars

\* the length of a quantization kind in beats; the clock position in beats
QuantBeats(c, q) ==
  CASE q = "beat" -> 1
    [] q = "bar"  -> c.beatsPerBar
    [] q = "2bar" -> 2 * c.beatsPerBar
    [] q = "4bar" -> 4 * c.beatsPerBar
PositionBeats(c) == c.currentBar * c.beatsPerBar + c.currentBeat
\* a position (bar, beat) is on a boundary of kind q when it is a multiple of
\* q's length: any beat for "beat", beat 0 for "bar", beat 0 of a bar
\* divisible by 2 (4) for "2bar" ("4bar")
OnBoundary(c, q) == PositionBeats(c) % QuantBeats(c, q) = 0

\* C8: time_until_next_quantization(q) is 0 exactly when the position is on a
\* boundary of kind q, and otherwise lies in (0, duration of q].
C8_ZeroExactlyOnBoundary ==
  last = "getTimeUntilNextQuantization" =>
    LET q == answer.arg
        t == answer.result
    IN /\ (t = 0) <=> OnBoundary(clock, q)
       /\ ~OnBoundary(clock, q) => (0 < t /\ t <= QuantBeats(clock, q) * MsPerBeat(clock))

\* C9: for every cycle length k >= 1 and every current_bar >= 0,
\* next_cycle_bar(k) is the smallest multiple of k strictly greater than
\* current_bar.
C9_NextCycleBarIsNextMultiple ==
  last = "getNextCycleBar" =>
    LET k == answer.arg
        n == answer.result
    IN /\ n > clock.currentBar
       /\ n % k = 0
       /\ \A m \in (clock.currentBar + 1)..(n - 1) : m % k # 0

\* C9 witness: the query was made past bar 0 with a cycle length that does
\* not divide the current bar, and with one that does.
C9_Witness ==
  /\ last = "getNextCycleBar"
  /\ clock.currentBar = 2
  /\ answer.arg = 3
  /\ answer.result = 3

\* C10: after n processed ticks since reset the accumulator is n mod ppqn,
\* current_beat is (n div ppqn) mod beats_per_bar, current_bar is
\* n div (ppqn * beats_per_bar); current_beat stays in [0, beats_per_bar)
\* and the accumulator in [0, ppqn).
C10_PositionFromTickCount ==
  /\ clock.tickCount = nTicks % clock.ppqn
  /\ clock.currentBeat = (nTicks \div clock.ppqn) % clock.beatsPerBar
  /\ clock.currentBar = nTicks \div (clock.ppqn * clock.beatsPerBar)
  /\ clock.currentBeat \in 0..(clock.beatsPerBar - 1)
  /\ clock.tickCount \in 0..(clock.ppqn - 1)

\* C10 witness: the 96 ticks of one 4/4 bar were ingested from the external
\* source (beat cycled 0,1,2,3,0 and the bar advanced to 1), and one more.
C10_Witness ==
  /\ last = "midiTick"
  /\ clock.source = "midi"
  /\ clock.beatsPerBar = DefaultBeatsPerBar
  /\ nTicks = PPQN * DefaultBeatsPerBar + 1
  /\ clock.currentBar = 1
  /\ clock.currentBeat = 0
  /\ clock.tickCount = 1

\* C11: while source=internal, each of ingest_external_tick, _start, _stop
\* and _continue leaves the whole clock state (is_running, current_bar,
\* current_beat, accumulator, the armed timer) unchanged and emits no event.
C11_ExternalEventsIgnoredWhenInternal ==
  [][ ((MidiTick \/ MidiStart \/ MidiStop \/ MidiContinue)
         /\ clock.source = "internal")
        => /\ clock'.isRunning = clock.isRunning
           /\ clock'.currentBar = clock.currentBar
           /\ clock'.currentBeat = clock.currentBeat
           /\ clock'.tickCount = clock.tickCount
           /\ clock'.intervalId = clock.intervalId
           /\ clock'.intervals = clock.intervals
           /\ clock'.emitted = << >> ]_vars

\* the event of a type at the position the clock holds
EventAt(c, type) == [type |-> type, bar |-> c.currentBar, beat |-> c.currentBeat]

\* C16: on every tick that advances the position the clock emits, in this
\* order, a bar event (only if a new bar starts), a beat event and a tick
\* event, each carrying the new (bar, beat); on every other processed tick
\* it emits the tick event alone.
C16_BarThenBeatThenTick ==
  [][ ((MidiTick \/ InternalTick) /\ TickIsProcessed(clock)) =>
        clock'.emitted =
          IF clock'.currentBar # clock.currentBar
            THEN << EventAt(clock', "bar"), EventAt(clock', "beat"),
                    EventAt(clock', "tick") >>
            ELSE IF clock'.currentBeat # clock.currentBeat
              THEN << EventAt(clock', "beat"), EventAt(clock', "tick") >>
              ELSE << EventAt(clock', "tick") >> ]_vars

\* the value emitted last for parameter pid once the events ev of a step
\* were delivered, `before` being the value emitted last before the step
LastEmitted(ev, pid, before) ==
  LET hits == {i \in 1..Len(ev) :
                 /\ ev[i].cb = "message"
                 /\ ParameterToMidiMessage(pid, ev[i].message[1].value)
                      = ev[i].message}
  IN IF hits = {} THEN before
     ELSE << ev[CHOOSE i \in hits : \A j \in hits : j <= i].message[1].value >>

\* a step in which cancel() is called during the fade of a Jump: by the
\* client between two frames, or by the sink inside a frame
CancelDuringFade ==
  /\ engine.interpolationState # << >>
  /\ engine.interpolationState[1].active
  /\ \/ last' = "cancel"
     \/ /\ last' = "frameFire"
        /\ out'.ran.onMessage.op = "cancel"
        /\ \E i \in 1..Len(out'.events) : out'.events[i].stale = "cancelled"

\* C12: when cancel() is called during a Jump's fade, the shadow is left as
\* it was after the last emitted frame: each interpolated parameter holds
\* the value emitted last for it (it is neither rolled back to its start
\* value nor moved on to its target), a parameter nothing was emitted for
\* keeps its value, and on_complete is not fired.
C12_CancelKeepsLastEmittedValues ==
  [][ CancelDuringFade =>
        /\ \A i \in 1..Len(out'.events) : out'.events[i].cb # "complete"
        /\ \A pid \in DOMAIN engine.interpolationState[1].sent :
             LET v == LastEmitted(out'.events, pid,
                                  engine.interpolationState[1].sent[pid])
             IN IF v = << >>
                  THEN /\ (pid \in DOMAIN store'.currentValues)
                            = (pid \in DOMAIN store.currentValues)
                       /\ pid \in DOMAIN store.currentValues =>
                            store'.currentValues[pid] = store.currentValues[pid]
                  ELSE /\ pid \in DOMAIN store'.currentValues
                       /\ store'.currentValues[pid] = v[1]
        /\ last' = "cancel" => store'.currentValues = store.currentValues ]_vars

\* C12 witness: cancel() was called after the first frame of a Jump with a
\* fade: the shadow holds the value of that frame, which is neither the
\* start value nor the target, for both parameters of the snapshot.
C12_Witness ==
  /\ last = "cancel"
  /\ out.ran.was # << >>
  /\ out.ran.was[1].mode = "jump"
  /\ out.ran.was[1].phase = "fading"
  /\ out.ran.was[1].snapshot = 1
  /\ out.ran.wasElapsed = FRAME_INTERVAL
  /\ out.events = << >>
  /\ store.currentValues["tempo"] > TempoDefault
  /\ store.currentValues["tempo"] < SnapshotValue
  /\ store.currentValues["groove"] = store.currentValues["tempo"]

\* C13: cancel() is idempotent in every engine state (idle, a Jump
\* scheduled, a Drop scheduled, a Jump interpolating): the state a call of
\* cancel() leaves (engine state and armed timers, which decide all future
\* events, shadow and snapshots, callbacks invoked) is the state two calls
\* in succession leave, and a call right after a call changes nothing.
C13_CancelIsIdempotent ==
  [][ last' = "cancel" =>
        /\ engine' = CancelActiveTransition(
                       CancelActiveTransition(World, "cancelled"),
                       "cancelled").engine
        /\ store' = CancelActiveTransition(
                      CancelActiveTransition(World, "cancelled"),
                      "cancelled").store
        /\ out'.events = << >>
        /\ out'.live = << >>
        /\ last = "cancel" => (engine' = engine /\ store' = store) ]_vars

\* C13 witness: cancel() was called while a Drop was scheduled and its
\* timer pending; nothing is scheduled and no timer is armed.
C13_Witness ==
  /\ last = "cancel"
  /\ out.ran.was # << >>
  /\ out.ran.was[1].mode = "drop"
  /\ out.ran.was[1].phase = "scheduled"
  /\ engine.scheduledTransition = << >>
  /\ ~engine.transitionTimerId
  /\ engine.timeouts = {}

(***************************************************************************)
(* Claims about the snapshot store, checked under SpecStore.               *)
(***************************************************************************)

\* C14 as stated: for any shadow S the store's operations reach, capture
\* followed by outbound_messages on the new snapshot yields exactly one
\* message per parameter id in S, carrying that parameter's value in S, and
\* nothing else.
C14_OneMessagePerShadowEntry ==
  [][ last' = "captureSnapshot" =>
        LET S == store.currentValues
            msgs == answer'.result
        IN /\ Len(msgs) = Cardinality(DOMAIN S)
           /\ \A pid \in DOMAIN S :
                Cardinality({i \in 1..Len(msgs) : Encodes(msgs[i], pid, S[pid])}) = 1
     ]_vars

\* C14, amended: capture followed by outbound_messages on the new snapshot
\* yields exactly one message per parameter id in S that the registry knows,
\* carrying that parameter's value in S, in the shadow's order; an id the
\* registry does not know is captured but yields no message; nothing else
\* is in the list.
C14_OneMessagePerRegisteredShadowEntry ==
  [][ last' = "captureSnapshot" =>
        LET S == store.currentValues
            msgs == answer'.result
            known == SelectSeq(store.currentOrder, Registered)
        IN /\ Len(msgs) = Cardinality({pid \in DOMAIN S : Registered(pid)})
           /\ Len(msgs) = Len(known)
           /\ \A i \in 1..Len(msgs) : Encodes(msgs[i], known[i], S[known[i]])
           /\ \A pid \in DOMAIN S :
                Cardinality({i \in 1..Len(msgs) : Encodes(msgs[i], pid, S[pid])})
                  = IF Registered(pid) THEN 1 ELSE 0
           /\ Len(store'.snapshots[answer'.arg].parameters) = Cardinality(DOMAIN S)
     ]_vars

\* C14 witness: the shadow held a value set by set_current for a registered
\* id and one for an id the registry does not know; the captured snapshot
\* holds three parameters and two messages came out, the first carrying the
\* value that was set.
C14_Witness ==
  /\ last = "captureSnapshot"
  /\ "custom" \in DOMAIN store.currentValues
  /\ store.currentValues["tempo"] = MaxValue
  /\ Len(store.snapshots[answer.arg].parameters) = 3
  /\ Len(answer.result) = 2
  /\ answer.result[1].value = MaxValue
  /\ answer.result[1].cc = TempoCC

\* C15: after any sequence of store operations (create_empty, capture,
\* update, set_parameter, remove_parameter, toggle_parameter_enabled, copy,
\* delete, load) every stored snapshot has pairwise distinct parameter ids
\* and every parameter value lies in [0,127].
C15_ParametersDistinctAndClamped ==
  \A id \in DOMAIN store.snapshots :
    LET params == store.snapshots[id].parameters
    IN /\ \A i, j \in 1..Len(params) :
            params[i].parameterId = params[j].parameterId => i = j
       /\ \A i \in 1..Len(params) :
            params[i].value \in MinValue..MaxValue

(***************************************************************************)
(* Claims about the transition engine and the clock's transport, checked   *)
(* under SpecTransport.                                                    *)
(***************************************************************************)

\* the callbacks of kind cb invoked in the step that led to this state
EventsOf(ev, cb) == {i \in 1..Len(ev) : ev[i].cb = cb}

\* C17: stop() of the clock never cancels or re-times a scheduled Drop: it
\* leaves the engine's state and timers as they are; as long as a Drop is
\* scheduled and neither cancelled nor overridden exactly one timer is
\* pending for it, whether the clock runs or not; and when that timer is
\* due the Drop fires once (its messages are delivered, on_complete is
\* invoked once, and no timer of it stays armed).
C17_StoppedClockDropStillFires ==
  [][ /\ last' = "stop" => engine' = engine
      /\ (out'.live # << >> /\ out'.live[1].mode = "drop") =>
           Cardinality({t \in engine'.timeouts :
                          /\ t.kind = "drop"
                          /\ t.dead = "no"
                          /\ t.snapshot = out'.live[1].snapshot}) = 1
      /\ (last' = "timeoutFire" /\ out'.ran.op = "drop" /\ out'.ran.stale = "no") =>
           /\ Cardinality(EventsOf(out'.events, "complete")) = 1
           /\ \A i \in EventsOf(out'.events, "complete") :
                out'.events[i].snapshot = out'.ran.snapshot
           /\ Cardinality(EventsOf(out'.events, "message"))
                = Len(GetSnapshotMidiMessages(store, out'.ran.snapshot))
           /\ out'.ran.onComplete = NoCall =>
                (engine'.timeouts = {} /\ engine'.scheduledTransition = << >>)
    ]_vars

\* C17 witness: a Drop on a stored snapshot was scheduled while the clock
\* was running, the clock was stopped before the deadline, and the timer
\* fired: messages were delivered and on_complete was invoked.
C17_Witness ==
  /\ last = "timeoutFire"
  /\ out.ran.op = "drop"
  /\ out.ran.stale = "no"
  /\ out.ran.armedRunning
  /\ ~clock.isRunning
  /\ Has(store, out.ran.snapshot)
  /\ EventsOf(out.events, "message") # {}
  /\ EventsOf(out.events, "complete") # {}
  /\ engine.timeouts = {}

(***************************************************************************)
(* More claims about the transition engine, checked under Spec.            *)
(***************************************************************************)

\* the messages delivered to the sink in the step, in order
Delivered(ev) ==
  [i \in 1..Len(SelectSeq(ev, LAMBDA e : e.cb = "message")) |->
     SelectSeq(ev, LAMBDA e : e.cb = "message")[i].message[1]]

\* the parameters of snapshot id that are enabled
EnabledIds(s, id) ==
  {s.snapshots[id].parameters[i].parameterId :
     i \in {j \in 1..Len(s.snapshots[id].parameters) :
              s.snapshots[id].parameters[j].isEnabled}}

\* C18: no one-shot message is delivered during a Jump.  Triggering a Jump,
\* cancelling and the deadline handler of a quantized Jump deliver nothing;
\* a frame delivers at most one message per interpolated parameter, in the
\* order of the parameters, each the registry's encoding of that parameter,
\* and the interpolated parameters are enabled parameters of the snapshot.
C18_JumpDeliversOnlyParameterEncodings ==
  [][ /\ (\/ last' \in {"triggerJump", "cancel"}
          \/ (last' = "timeoutFire" /\ out'.ran.op = "jump")) =>
            Delivered(out'.events) = << >>
      /\ last' = "frameFire" =>
           LET keys == IF engine.interpolationState = << >> THEN << >>
                       ELSE SelectSeq(
                              engine.interpolationState[1].parametersToInterpolate,
                              Registered)
               msgs == Delivered(out'.events)
           IN /\ Len(msgs) <= Len(keys)
              /\ \A i \in 1..Len(msgs) : Encodes(msgs[i], keys[i], msgs[i].value)
              /\ \A i \in 1..Len(keys) :
                   Has(store, engine.interpolationState[1].snapshot) =>
                     keys[i] \in EnabledIds(store, engine.interpolationState[1].snapshot)
    ]_vars

\* C18 witness: the last frame of a Jump on the snapshot that holds one-shot
\* messages and an unregistered parameter: one message was delivered, the
\* encoding of its registered enabled parameter, and the Jump completed.
C18_Witness ==
  /\ last = "frameFire"
  /\ out.ran.snapshot = 2
  /\ Has(store, 2)
  /\ Len(store.snapshots[2].oneShotMessages) = 2
  /\ Len(Delivered(out.events)) = 1
  /\ Encodes(Delivered(out.events)[1], "tempo", SnapshotValue)
  /\ EventsOf(out.events, "complete") # {}

\* the encodings of the parameters of snapshot id that are enabled and that
\* the registry knows, in list order, followed by its one-shot messages
EncodingsThenOneShots(s, id) ==
  LET sel == SelectSeq(s.snapshots[id].parameters,
                       LAMBDA p : p.isEnabled /\ Registered(p.parameterId))
  IN [i \in 1..(Len(sel) + Len(s.snapshots[id].oneShotMessages)) |->
        IF i <= Len(sel)
          THEN [type |-> "cc", channel |-> 1, value |-> sel[i].value,
                cc |-> IF sel[i].parameterId = "tempo" THEN TempoCC ELSE GrooveCC]
          ELSE s.snapshots[id].oneShotMessages[i - Len(sel)]]

\* C19: in one Drop firing the sink receives the messages of the enabled
\* parameters in list order, then all one-shot messages in their order;
\* disabled parameters and parameters the registry does not know are
\* skipped, and nothing else is delivered before, between or after them
\* (the completion callback is invoked after the last message).
C19_DropDeliversParametersThenOneShots ==
  [][ (last' = "timeoutFire" /\ out'.ran.op = "drop") =>
        /\ Delivered(out'.events) =
             IF Has(store, out'.ran.snapshot)
               THEN EncodingsThenOneShots(store, out'.ran.snapshot)
               ELSE << >>
        /\ \A i \in EventsOf(out'.events, "message") :
             /\ i <= Len(Delivered(out'.events))
             /\ out'.events[i].snapshot = out'.ran.snapshot
    ]_vars

\* C19 witness: a Drop fired on the snapshot holding an enabled registered
\* parameter, an enabled unregistered one, a disabled one and two one-shot
\* messages: three messages were delivered, the parameter's first, then
\* the program change, then the control change, then on_complete ran.
C19_Witness ==
  /\ last = "timeoutFire"
  /\ out.ran.op = "drop"
  /\ out.ran.snapshot = 2
  /\ Len(out.events) = 4
  /\ Delivered(out.events) =
       << [type |-> "cc", channel |-> 1, value |-> SnapshotValue, cc |-> TempoCC],
          OneShotInput[1], OneShotInput[2] >>
  /\ out.events[1].message[1].type = "cc"
  /\ out.events[2].message[1].type = "pc"
  /\ out.events[4].cb = "complete"

(***************************************************************************)
(* A claim about triggers with ids of deleted snapshots, checked under     *)
(* SpecMissing.                                                            *)
(***************************************************************************)

\* C20: triggering a Jump or a Drop for a snapshot id that is not in the
\* store is a no-op: no message is delivered, on_complete does not fire,
\* the shadow and the snapshots are unchanged, no transition becomes
\* scheduled, and a transition in flight is left untouched (the engine's
\* state and every armed timer are as before).
C20_MissingSnapshotIsNoOp ==
  [][ (last' \in {"triggerJump", "triggerDrop"} /\ ~Has(store, out'.ran.snapshot)) =>
        /\ out'.events = << >>
        /\ store' = store
        /\ engine' = engine
        /\ out'.live = out.live
    ]_vars

\* C20 witness: a Drop was triggered for a deleted snapshot while a Jump
\* was interpolating: the Jump's state and frame timer are still there.
C20_Witness ==
  /\ last = "triggerDrop"
  /\ ~Has(store, out.ran.snapshot)
  /\ engine.interpolationState # << >>
  /\ engine.interpolationState[1].active
  /\ engine.frames # {}
  /\ engine.scheduledTransition = << >>
  /\ engine.timeouts = {}
  /\ out.live # << >>

(***************************************************************************)
(* Claims about the store's records, checked under SpecRecords.            *)
(***************************************************************************)

\* the mutations that take a snapshot id, and those that also take a
\* parameter id
IdMutations ==
  {"updateSnapshot", "updateSnapshotParameter", "removeSnapshotParameter",
   "toggleParameterEnabled", "deleteSnapshot", "copySnapshot"}
ParameterMutations == {"removeSnapshotParameter", "toggleParameterEnabled"}

\* snapshot id of store s has a parameter pid
HasParameter(s, id, pid) ==
  Has(s, id) /\ FindIndex(s.snapshots[id].parameters, pid) > 0

\* C21: update, set_parameter, remove_parameter, toggle_parameter_enabled,
\* delete and copy called with a snapshot id that is not in the store (and
\* remove/toggle with a parameter id that is not in the snapshot) return the
\* not-found result (false or absent) and leave every stored snapshot,
\* including its modified timestamp, and the shadow unchanged.
C21_NotFoundChangesNothing ==
  [][ (/\ last' \in IdMutations
       /\ \/ ~Has(store, answer'.arg[1])
          \/ /\ last' \in ParameterMutations
             /\ ~HasParameter(store, answer'.arg[1], answer'.arg[2]))
        => /\ IF last' \in {"updateSnapshot", "copySnapshot"}
                THEN answer'.result = << >>
                ELSE answer'.result = FALSE
           /\ store'.snapshots = store.snapshots
           /\ store'.order = store.order
           /\ store'.currentValues = store.currentValues
           /\ store'.currentOrder = store.currentOrder ]_vars

\* C21 witness: toggle_parameter_enabled was called, after time had passed,
\* on a stored snapshot that holds a parameter, with the id of a parameter
\* it does not hold: false was returned and the modified timestamp is the
\* earlier one.
C21_Witness ==
  /\ last = "toggleParameterEnabled"
  /\ answer.result = FALSE
  /\ Has(store, answer.arg[1])
  /\ HasParameter(store, answer.arg[1], "tempo")
  /\ answer.arg[2] = "groove"
  /\ store.snapshots[answer.arg[1]].modifiedAt < store.now

\* C26: update(id, patch) changes only name, parameters, one-shot messages,
\* colour and the modified timestamp: whatever the patch contains, the
\* snapshot's id, its (bank, slot) address and its creation timestamp are
\* unchanged, and the snapshot stays retrievable by get(id) under its
\* original id with get(id).id = id.
C26_UpdateKeepsIdentity ==
  [][ (last' = "updateSnapshot" /\ Has(store, answer'.arg[1])) =>
        /\ Has(store', answer'.arg[1])
        /\ store'.snapshots[answer'.arg[1]].id = store.snapshots[answer'.arg[1]].id
        /\ store'.snapshots[answer'.arg[1]].bank = store.snapshots[answer'.arg[1]].bank
        /\ store'.snapshots[answer'.arg[1]].slot = store.snapshots[answer'.arg[1]].slot
        /\ store'.snapshots[answer'.arg[1]].createdAt
             = store.snapshots[answer'.arg[1]].createdAt ]_vars

(***************************************************************************)
(* A claim about Jumps without a fade, checked under SpecZeroFade.         *)
(***************************************************************************)

\* a Jump with fade duration 0 is live and fading
ZeroFadeJumpLive(o) ==
  /\ o.live # << >>
  /\ o.live[1].mode = "jump"
  /\ o.live[1].phase = "fading"
  /\ o.live[1].fade = 0

\* C22: a Jump with fade duration 0 emits, for each enabled parameter,
\* exactly one message carrying the target value, sets the shadow to the
\* target values, fires on_complete exactly once and leaves no
\* interpolation state behind.  Stated for the parameters the registry
\* knows, as two safety conditions: such a Jump, once started, has its
\* interpolation state and an armed frame timer (without them it never
\* emits nor completes); and the frame of such a Jump delivers exactly the
\* encodings of the targets, leaves the shadow at the targets, invokes
\* on_complete once and leaves neither state nor timer.
C22_ZeroFadeJumpCompletesAtOnce ==
  [][ /\ ZeroFadeJumpLive(out') =>
           /\ engine'.interpolationState # << >>
           /\ engine'.interpolationState[1].active
           /\ engine'.interpolationState[1].snapshot = out'.live[1].snapshot
           /\ \E t \in engine'.frames : t.current
      /\ (/\ last' = "frameFire"
          /\ ZeroFadeJumpLive(out)
          /\ engine.interpolationState # << >>
          /\ out'.ran.onMessage = NoCall) =>
           LET st == engine.interpolationState[1]
               keys == SelectSeq(st.parametersToInterpolate, Registered)
               msgs == Delivered(out'.events)
           IN /\ Len(msgs) = Len(keys)
              /\ \A i \in 1..Len(msgs) :
                   Encodes(msgs[i], keys[i], st.targetValues[keys[i]])
              /\ \A pid \in DOMAIN st.targetValues :
                   GetCurrentValueOr(store', pid, -1) = st.targetValues[pid]
              /\ Cardinality(EventsOf(out'.events, "complete")) = 1
              /\ out'.ran.onComplete = NoCall =>
                   (engine'.interpolationState = << >> /\ engine'.frames = {})
    ]_vars

(***************************************************************************)
(* More claims about the clock, checked under SpecClock.                   *)
(***************************************************************************)

\* C23: start() on a running clock and stop() on a stopped clock change
\* nothing (state and armed timer unchanged), and reset() in either running
\* state sets current_bar=0, current_beat=0 and the tick accumulator to 0
\* without changing is_running, source or bpm (nor the armed timer).
C23_RedundantStartStopAndReset ==
  [][ /\ (last' = "start" /\ clock.isRunning) => clock' = Fresh(clock)
      /\ (last' = "stop" /\ ~clock.isRunning) => clock' = Fresh(clock)
      /\ last' = "reset" =>
           /\ clock'.currentBar = 0
           /\ clock'.currentBeat = 0
           /\ clock'.tickCount = 0
           /\ clock'.isRunning = clock.isRunning
           /\ clock'.source = clock.source
           /\ clock'.bpm = clock.bpm
           /\ clock'.intervalId = clock.intervalId
           /\ clock'.intervals = clock.intervals
           /\ clock'.emitted = << >> ]_vars

\* C23 witness: start() was called on a running internal clock whose tick
\* timer was due: the one timer is still armed and still due (a start that
\* re-armed it would have set it a full period ahead).
C23_Witness ==
  /\ last = "start"
  /\ clock.isRunning
  /\ clock.source = "internal"
  /\ Cardinality(clock.intervals) = 1
  /\ \A t \in clock.intervals : t.wait = 0 /\ t.current

\* C24: set_bpm(b) stores b clamped to [20,300] and never changes
\* current_bar, current_beat, the tick accumulator or is_running (nor the
\* source); when source=internal and the clock is running it leaves exactly
\* one tick timer armed, paced for the new bpm; otherwise it leaves the
\* timers as they are.
C24_SetBpmClampsAndRepaces ==
  [][ last' = "setBpm" =>
        /\ clock'.bpm = IF answer'.arg < MinBpm THEN MinBpm
                        ELSE IF answer'.arg > MaxBpm THEN MaxBpm ELSE answer'.arg
        /\ clock'.currentBar = clock.currentBar
        /\ clock'.currentBeat = clock.currentBeat
        /\ clock'.tickCount = clock.tickCount
        /\ clock'.isRunning = clock.isRunning
        /\ clock'.source = clock.source
        /\ IF clock.source = "internal" /\ clock.isRunning
             THEN /\ Cardinality(clock'.intervals) = 1
                  /\ \A t \in clock'.intervals :
                       /\ t.current
                       /\ t.period = (MsPerMinute \div clock'.bpm) \div PPQN
                       /\ t.wait = t.period
                  /\ clock'.intervalId
             ELSE /\ clock'.intervals = clock.intervals
                  /\ clock'.intervalId = clock.intervalId ]_vars

\* C24 witness: set_bpm(400) was called on a running internal clock that
\* is past bar 0: the bpm is 300 and the one timer has the period of 300 bpm.
C24_Witness ==
  /\ last = "setBpm"
  /\ answer.arg > MaxBpm
  /\ clock.bpm = MaxBpm
  /\ clock.isRunning
  /\ clock.source = "internal"
  /\ clock.currentBar > 0
  /\ clock.tickCount > 0
  /\ \E t \in clock.intervals : t.period = (MsPerMinute \div MaxBpm) \div PPQN

\* C25: set_source preserves current_bar, current_beat, the tick
\* accumulator and is_running in both directions (internal to external and
\* external to internal), whether or not the clock is running; the source
\* is the one asked for, and a running clock has its tick timer armed
\* exactly when the new source is internal.
C25_SetSourceKeepsPosition ==
  [][ last' = "setClockSource" =>
        /\ clock'.source = answer'.arg
        /\ clock'.currentBar = clock.currentBar
        /\ clock'.currentBeat = clock.currentBeat
        /\ clock'.tickCount = clock.tickCount
        /\ clock'.isRunning = clock.isRunning
        /\ clock'.bpm = clock.bpm
        /\ Cardinality(clock'.intervals) =
             IF clock'.isRunning /\ clock'.source = "internal" THEN 1 ELSE 0
        /\ clock'.emitted = << >> ]_vars

\* C25 witness: the source was set to internal on a running clock that had
\* advanced under the external source: the position is kept, the clock
\* runs and its tick timer is newly armed.
C25_Witness ==
  /\ last = "setClockSource"
  /\ answer.arg = "internal"
  /\ clock.isRunning
  /\ clock.currentBar = 1
  /\ clock.currentBeat = 1
  /\ clock.tickCount = 1
  /\ \E t \in clock.intervals : t.current /\ t.wait = t.period

\* C27: for target_bar > current_bar, time_until_bar(target_bar) equals
\* ((target_bar - current_bar) * beats_per_bar - current_beat) beats at
\* 60000/bpm ms per beat, i.e. the span from the current (bar, beat) to
\* beat 0 of target_bar; for target_bar <= current_bar it is 0.
C27_TimeUntilBarIsSpanInBeats ==
  last = "getTimeUntilBar" =>
    IF answer.arg > clock.currentBar
      THEN answer.result * clock.bpm =
             ((answer.arg - clock.currentBar) * clock.beatsPerBar
              - clock.currentBeat) * MsPerMinute
      ELSE answer.result = 0

\* C27 witness: the query was made at bar 1, beat 1 of a 4/4 clock at
\* 120 bpm for bar 2: three beats of 500 ms.
C27_Witness ==
  /\ last = "getTimeUntilBar"
  /\ clock.beatsPerBar = DefaultBeatsPerBar
  /\ clock.bpm = DefaultBpm
  /\ clock.currentBar = 1
  /\ clock.currentBeat = 1
  /\ answer.arg = 2
  /\ answer.result = 1500

\* C30: with source=external, a tick ingested while is_running is false is
\* absorbed: current_bar, current_beat and the tick accumulator are
\* unchanged and no tick, beat or bar event is emitted; likewise an
\* external stop while already stopped changes nothing.
C30_TickWhileStoppedIsAbsorbed ==
  [][ /\ (last' = "midiTick" /\ clock.source = "midi" /\ ~clock.isRunning) =>
           /\ clock'.currentBar = clock.currentBar
           /\ clock'.currentBeat = clock.currentBeat
           /\ clock'.tickCount = clock.tickCount
           /\ clock'.emitted = << >>
      /\ (last' = "midiStop" /\ clock.source = "midi" /\ ~clock.isRunning) =>
           clock' = Fresh(clock) ]_vars

(***************************************************************************)
(* Claims about errors and external timing of the transition engine,       *)
(* checked under Spec.                                                     *)
(***************************************************************************)

\* C28: no core operation and no timer handler raises an error in any
\* reachable state, including when cancel() or a new trigger is invoked
\* re-entrantly from inside the sink (on_message) callback part-way through
\* a multi-parameter Jump frame.
C28_NoHandlerRaises ==
  \A i \in 1..Len(out.events) : out.events[i].cb # "throw"

(***************************************************************************)
(* A claim about Drops on the external clock, checked under SpecExternal.  *)
(***************************************************************************)

\* a Drop is scheduled and pending in engine e
DropPending(e) ==
  /\ e.scheduledTransition # << >>
  /\ e.scheduledTransition[1].mode = "drop"
  /\ \E t \in e.timeouts : t.kind = "drop" /\ t.dead = "no"

\* C29: with source=external, a Drop scheduled with target bar T fires when
\* the clock's current_bar first becomes T (on the tick that advances into
\* bar T, within one tick period): it does not fire while current_bar < T
\* and has fired by the time a further tick arrives in bar T.
C29_DropFiresOnEnteringTargetBar ==
  [][ /\ (/\ last' = "timeoutFire"
          /\ out'.ran.op = "drop"
          /\ out'.ran.stale = "no"
          /\ DropPending(engine)) =>
           clock.currentBar >= engine.scheduledTransition[1].targetBar
      /\ (/\ last' = "midiTick"
          /\ clock.source = "midi"
          /\ DropPending(engine)) =>
           clock.currentBar < engine.scheduledTransition[1].targetBar
    ]_vars

(***************************************************************************)
(* Claims about the clock's quantization delay, checked under SpecClock.   *)
(***************************************************************************)

\* C33: for every clock position (bar, beat) and every q in {beat, bar,
\* 2bar, 4bar}, the delay returned by time_until_next_quantization(q),
\* expressed in beats and added to the current position
\* bar * beats_per_bar + beat, gives a position that is a multiple of q's
\* length in beats (1, beats_per_bar, 2 * beats_per_bar, 4 * beats_per_bar)
\* and is at most one q-length ahead of the current position.
C33_DelayLandsOnNextBoundary ==
  last = "getTimeUntilNextQuantization" =>
    LET q == answer.arg
        beats == answer.result \div MsPerBeat(clock)
        land == PositionBeats(clock) + beats
    IN /\ answer.result = beats * MsPerBeat(clock)
       /\ land % QuantBeats(clock, q) = 0
       /\ land <= PositionBeats(clock) + QuantBeats(clock, q)

\* C33 witness: the query for "4bar" was made at bar 1, beat 2 of a clock
\* with three beats to the bar: the delay is the seven beats to position 12.
C33_Witness ==
  /\ last = "getTimeUntilNextQuantization"
  /\ answer.arg = "4bar"
  /\ clock.beatsPerBar = 3
  /\ clock.currentBar = 1
  /\ clock.currentBeat = 2
  /\ answer.result = 7 * MsPerBeat(clock)

\* C36: in every reachable clock state the internal tick timer is armed if
\* and only if is_running and source=internal, and at most one such timer is
\* armed, after any sequence of start, stop, reset, set_bpm, set_source and
\* external start/stop/continue events; the handle the clock keeps is the
\* handle of that timer.
C36_TickTimerArmedIffRunningInternal ==
  /\ Cardinality(clock.intervals) <= 1
  /\ (clock.intervals # {}) <=> (clock.isRunning /\ clock.source = "internal")
  /\ clock.intervalId <=> (clock.intervals # {})
  /\ \A t \in clock.intervals : t.current

\* C36 witness: the source was set back to internal on a running clock whose
\* tempo had been raised to the maximum: one timer is armed, at the tick
\* period of that tempo.
C36_Witness ==
  /\ last = "setClockSource"
  /\ clock.isRunning
  /\ clock.source = "internal"
  /\ clock.bpm = MaxBpm
  /\ clock.currentBar = 1
  /\ clock.intervals = {[wait |-> (MsPerMinute \div MaxBpm) \div PPQN,
                         period |-> (MsPerMinute \div MaxBpm) \div PPQN,
                         current |-> TRUE]}

\* C37: every beat advancement (every ppqn-th processed tick) emits exactly
\* one beat event, for every beats_per_bar >= 1, including beats_per_bar = 1
\* where every beat also starts a new bar, and including the first beat
\* after reset().
C37_EveryBeatEmitsOneBeatEvent ==
  [][ ((MidiTick \/ InternalTick) /\ TickIsProcessed(clock)
         /\ clock.tickCount + 1 >= clock.ppqn)
        => Cardinality({i \in 1..Len(clock'.emitted) :
                          clock'.emitted[i].type = "beat"}) = 1 ]_vars

(***************************************************************************)
(* A claim about copies of snapshots, checked under SpecRecords.           *)
(***************************************************************************)

\* C38: copy(src, bank, slot) yields an independent snapshot: it has a fresh
\* id and leaves the source unchanged, and any later set_parameter,
\* remove_parameter or toggle_parameter_enabled applied to the copy leaves
\* the source's parameter list unchanged (and vice versa): a copy leaves
\* every snapshot stored before it as it was, and an edit of the parameters
\* of one snapshot leaves the parameter list of every other snapshot as it
\* was.
C38_CopyIsIndependent ==
  [][ /\ (last' = "copySnapshot" /\ answer'.result # << >>) =>
           /\ ~Has(store, answer'.result[1].id)
           /\ \A i \in DOMAIN store.snapshots :
                Has(store', i) /\ store'.snapshots[i] = store.snapshots[i]
      /\ last' \in {"updateSnapshotParameter", "removeSnapshotParameter",
                    "toggleParameterEnabled"} =>
           \A i \in DOMAIN store.snapshots :
             i # answer'.arg[1] =>
               /\ Has(store', i)
               /\ store'.snapshots[i].parameters = store.snapshots[i].parameters
    ]_vars

(***************************************************************************)
(* Claims about the frames of a Jump, checked under Spec.                  *)
(***************************************************************************)

\* C39: Jump interpolation never changes the set of stored snapshots: after
\* every frame, and at every instant at which the sink callback is invoked,
\* list_all() and find_by_position(0, 0) show exactly the snapshots the
\* caller created (what they showed before the frame), with no
\* engine-internal temporary snapshot visible.
C39_FramesShowOnlyCallersSnapshots ==
  [][ last' = "frameFire" =>
        /\ GetAllSnapshots(store') = GetAllSnapshots(store)
        /\ GetSnapshotByPosition(store', 0, 0) = GetSnapshotByPosition(store, 0, 0)
        /\ \A i \in 1..Len(out'.events) :
             out'.events[i].cb = "message" =>
               /\ out'.events[i].listAll = IdsOf(GetAllSnapshots(store))
               /\ out'.events[i].atZero
                    = IdsOf(GetSnapshotByPosition(store, 0, 0)) ]_vars

(***************************************************************************)
(* A claim about the completion of a Jump, checked under SpecLoneJump.     *)
(***************************************************************************)

\* on_complete is fired in the step just taken
CompletionFired == \E i \in 1..Len(out.events) : out.events[i].cb = "complete"

\* C40: every Jump triggered on a stored snapshot and not subsequently
\* cancelled or retriggered eventually fires on_complete exactly once,
\* including when the snapshot has no enabled parameters, after which
\* is_active() is false: the trigger leads to a step in which on_complete
\* is fired, once, for the snapshot triggered, and that step leaves the
\* engine inactive with no timer that could fire it again.
C40_LoneJumpCompletesOnce ==
  /\ [](last = "triggerJump" => <>CompletionFired)
  /\ [](CompletionFired =>
          /\ Cardinality({i \in 1..Len(out.events) :
                            out.events[i].cb = "complete"}) = 1
          /\ ~IsTransitionActive(engine)
          /\ engine.timeouts = {}
          /\ engine.frames = {})

(***************************************************************************)
(* A claim about the engine's timers, checked under Spec.                  *)
(***************************************************************************)

\* C35: in every state between engine operations and timer handlers:
\* scheduled() and interpolation() are never both present; the one-shot
\* deadline timer is pending if and only if scheduled() is present; and the
\* frame timer is armed if and only if interpolation() is present, so
\* is_active() is true exactly when some engine timer can still fire.
C35_TimersMatchEngineState ==
  /\ ~(engine.scheduledTransition # << >> /\ engine.interpolationState # << >>)
  /\ (engine.timeouts # {}) <=> (engine.scheduledTransition # << >>)
  /\ (engine.frames # {}) <=> (engine.interpolationState # << >>)
  /\ IsTransitionActive(engine) <=> (engine.timeouts # {} \/ engine.frames # {})

(***************************************************************************)
(* A claim about quantized Jumps, checked under SpecQuantized.             *)
(***************************************************************************)

\* C32: for a Jump with quantization other than none, no message is
\* delivered before the deadline timer fires; when it fires, scheduled()
\* becomes absent, interpolation() becomes present, and the per-parameter
\* start map equals the shadow and the target map equals the snapshot's
\* enabled parameters as they are at that instant, not as they were at
\* trigger time.
C32_QuantizedJumpStartsAtDeadline ==
  /\ []((engine.scheduledTransition # << >>
           /\ engine.scheduledTransition[1].mode = "jump") => MessageEvents = {})
  /\ [][ (last' = "timeoutFire" /\ out'.ran.op = "jump") =>
           /\ \A i \in 1..Len(out'.events) : out'.events[i].cb # "message"
           /\ engine'.scheduledTransition = << >>
           /\ engine'.interpolationState # << >>
           /\ engine'.interpolationState[1].targetValues
                = GetInterpolationTargets(store, out'.ran.snapshot).val
           /\ engine'.interpolationState[1].parametersToInterpolate
                = GetInterpolationTargets(store, out'.ran.snapshot).keys
           /\ DOMAIN engine'.interpolationState[1].startValues
                = DOMAIN GetInterpolationTargets(store, out'.ran.snapshot).val
           /\ \A pid \in DOMAIN engine'.interpolationState[1].startValues :
                pid \in DOMAIN store.currentValues =>
                  engine'.interpolationState[1].startValues[pid]
                    = store.currentValues[pid] ]_vars

\* v lies between a and b inclusive
Between(a, v, b) == Min(a, b) <= v /\ v <= Max(a, b)

\* the values the sink was handed for parameter pid in the events ev, as
\* pairs <<position, value>>
EmittedFor(ev, pid) ==
  {<<i, ev[i].message[1].value>> : i \in {j \in 1..Len(ev) :
      /\ ev[j].cb = "message"
      /\ Encodes(ev[j].message[1], pid, ev[j].message[1].value)}}

\* C31: during a Jump, for each parameter the sequence of emitted values is
\* monotone from the start value toward the target (non-increasing when
\* target < start, non-decreasing when target > start) and every emitted
\* value lies between start and target inclusive, hence within [0,127]; the
\* eased progress is 0 at elapsed 0, 1 at elapsed = duration and
\* non-decreasing in elapsed time.  Stated for a frame of a Jump: a value
\* emitted in it is emitted for a parameter of the Jump and lies between the
\* value emitted last for that parameter (the start value, if none was) and
\* the target; and the value computed for the parameter is the start value
\* at elapsed 0, the target at elapsed = duration and moves toward the
\* target as elapsed grows.
C31_JumpValuesMoveTowardTarget ==
  [][ (/\ last' = "frameFire"
       /\ engine.interpolationState # << >>
       /\ engine.interpolationState[1].active) =>
        LET st == engine.interpolationState[1]
        IN /\ \A pid \in ParamIds :
                \A e \in EmittedFor(out'.events, pid) :
                  /\ pid \in DOMAIN st.startValues
                  /\ Between(st.startValues[pid], e[2], st.targetValues[pid])
                  /\ Between(MinValue, e[2], MaxValue)
                  /\ st.sent[pid] # << >> =>
                       Between(st.sent[pid][1], e[2], st.targetValues[pid])
                  /\ \A f \in EmittedFor(out'.events, pid) :
                       f[1] < e[1] => Between(f[2], e[2], st.targetValues[pid])
           /\ \A pid \in DOMAIN st.startValues :
                /\ InterpolatedValue(st.startValues[pid], st.targetValues[pid],
                                     0, Max(st.duration, 1)) = st.startValues[pid]
                /\ InterpolatedValue(st.startValues[pid], st.targetValues[pid],
                                     st.duration, st.duration) = st.targetValues[pid]
                /\ \A t \in 1..st.duration :
                     Between(InterpolatedValue(st.startValues[pid],
                                               st.targetValues[pid], t - 1,
                                               st.duration),
                             InterpolatedValue(st.startValues[pid],
                                               st.targetValues[pid], t,
                                               st.duration),
                             st.targetValues[pid]) ]_vars

\* a Jump is interpolating
Interpolating(e) == e.interpolationState # << >> /\ e.interpolationState[1].active

\* C34: when a Jump B begins interpolating after a Jump A was cancelled or
\* overridden mid-fade, B's start value for every parameter that A was
\* moving is the last value A emitted for it (the current shadow), so the
\* first value B emits lies between that value and B's target and the
\* device never sees a jump back to A's start value.  Stated for the
\* parameters the registry knows: while a Jump interpolates, the shadow of a
\* parameter is the value the Jump emitted last for it and, as long as the
\* Jump has emitted none, the Jump's start value; a Jump that begins in the
\* step that overrides a Jump A starts each parameter A has emitted at the
\* value A emitted last; and the first value a Jump emits for a parameter
\* lies between the shadow and the target.
C34_JumpStartsAtLastEmittedValue ==
  /\ [](Interpolating(engine) =>
          \A pid \in DOMAIN engine.interpolationState[1].startValues :
            (Registered(pid) /\ pid \in DOMAIN store.currentValues) =>
              IF engine.interpolationState[1].sent[pid] = << >>
                THEN engine.interpolationState[1].startValues[pid]
                       = store.currentValues[pid]
                ELSE store.currentValues[pid]
                       = engine.interpolationState[1].sent[pid][1])
  /\ [][ (/\ Interpolating(engine)
          /\ Interpolating(engine')
          /\ last' = "triggerJump") =>
           \A pid \in DOMAIN engine'.interpolationState[1].startValues :
             (/\ pid \in DOMAIN engine.interpolationState[1].sent
              /\ engine.interpolationState[1].sent[pid] # << >>) =>
               engine'.interpolationState[1].startValues[pid]
                 = engine.interpolationState[1].sent[pid][1] ]_vars
  /\ [][ (last' = "frameFire" /\ Interpolating(engine)) =>
           \A pid \in DOMAIN engine.interpolationState[1].startValues :
             engine.interpolationState[1].sent[pid] = << >> =>
               \A e \in EmittedFor(out'.events, pid) :
                 Between(store.currentValues[pid], e[2],
                         engine.interpolationState[1].targetValues[pid]) ]_vars

====
